---- MODULE Spec2Model ----
(***************************************************************************)
(* Model of BigQueryAgentAnalyticsPlugin                                   *)
(* (src/src/google/adk/plugins/bigquery_agent_analytics_plugin.py).        *)
(*                                                                         *)
(* The plugin runs on one asyncio event loop: code between two awaits is   *)
(* one atomic step.  Every background unit (the task _log creates for      *)
(* _perform_write) and every shutdown() invocation is a process whose pc   *)
(* names the await it is suspended at.                                     *)
(***************************************************************************)
EXTENDS Integers, Sequences, FiniteSets, TLC

\* ------------------------------------------------------------------ bounds
\* Tasks and shutdown() invocations of the full model (Spec).
MaxUnits == 2
MaxShutdowns == 2
\* Tasks of the runs without shutdown() (SpecInit): of those in which no
\* task is cancelled, and of those in which tasks are cancelled.
InitUnits == 3
CancelUnits == 2
\* Tasks of the runs under fairness of the done callback (SpecFair): of
\* those in which no task is cancelled, and of those in which tasks are
\* cancelled.
FairUnits == 2
FairCancelUnits == 1
\* Tasks of the runs under fairness of the steps of _ensure_init
\* (SpecGate), in which tasks are cancelled.
GateUnits == 2
\* Tasks of the runs with caller scopes (SpecScope).
ScopeUnits == 2
\* Tasks and shutdown() invocations of the runs without task
\* cancellation (SpecLife).
LifeUnits == 2
LifeShutdowns == 1
\* Tasks of the runs over the lifecycle hooks' inputs (SpecHooks).
HookUnits == 2

\* Tasks in the runs over the filter configurations.
FilterUnits == 2

\* Tasks in the runs over the schema descriptors, and the longest list of
\* top-level fields drawn from MapperFields.
MapperUnits == 2
MaxSchemaLen == 2

\* Tasks in the runs over the data given to _log.
RowUnits == 2

\* Tasks in the runs over small sets of schemas.
SkipUnits == 2

\* Tasks and shutdown() invocations of the runs that tell the results of
\* the close() calls apart (FaultUnits tasks) or do not (CloseUnits), and
\* of the runs under fairness (FaultUnits tasks with shutdown() calls,
\* CloseUnits tasks without).
CloseUnits == 2
FaultUnits == 1
CloseShutdowns == 1
\* Tasks in the runs over the events on_event_callback classifies.
ClassifyUnits == 2

MaxOf(S) == CHOOSE x \in S : \A y \in S : y <= x
Units ==
  1..MaxOf({MaxUnits, InitUnits, FairUnits, ScopeUnits, LifeUnits, HookUnits,
            FilterUnits, MapperUnits, RowUnits,
            SkipUnits, CloseUnits})
Shutdowns == 1..MaxOf({MaxShutdowns, LifeShutdowns, CloseShutdowns})

\* Python's None, for values that are strings in the program.
NoneV == "<None>"
\* An Optional value that is not a string: None, or Some(the value).
None == [none |-> TRUE]
Some(x) == [none |-> FALSE, v |-> x]
\* A client handle is the index of the client in `clients`; 0 is None.
NoClient == 0

\* ------------------------------------------------------ schema descriptors
\* bigquery.SchemaField(name, field_type, mode="NULLABLE", fields=(),
\* range_element_type=None)
SchemaField(name, field_type) ==
  [name |-> name, field_type |-> field_type, mode |-> "NULLABLE",
   fields |-> <<>>, range_element_type |-> NoneV]

\* bigquery.SchemaField with every argument given; a range_element_type
\* is modelled by its element_type (NoneV for None).
SchemaFieldOf(name, field_type, mode, fields, range_element_type) ==
  [name |-> name, field_type |-> field_type, mode |-> mode,
   fields |-> fields, range_element_type |-> range_element_type]

\* self._schema of __init__
PluginSchema ==
  << SchemaField("timestamp", "TIMESTAMP"),
     SchemaField("event_type", "STRING"),
     SchemaField("agent", "STRING"),
     SchemaField("session_id", "STRING"),
     SchemaField("invocation_id", "STRING"),
     SchemaField("user_id", "STRING"),
     SchemaField("content", "STRING"),
     SchemaField("error_message", "STRING") >>

\* ------------------------------------------------------------- type mapper
\* An Arrow data type is a record with a field k: "scalar" (with t),
\* "list" (with inner), "struct" (with fields); Absent is Python's None.
Absent == [k |-> "absent"]
Scalar(t) == [k |-> "scalar", t |-> t]

\* _BQ_TO_ARROW_SCALARS with the constructors applied.
BQ_TO_ARROW_SCALARS ==
  [ BOOL |-> "bool", BOOLEAN |-> "bool", BYTES |-> "binary",
    DATE |-> "date32", DATETIME |-> "timestamp[us]",
    FLOAT |-> "float64", FLOAT64 |-> "float64", GEOGRAPHY |-> "string",
    INT64 |-> "int64", INTEGER |-> "int64", JSON |-> "string",
    NUMERIC |-> "decimal128(38,9)", BIGNUMERIC |-> "decimal256(76,38)",
    STRING |-> "string", TIME |-> "time64[us]",
    TIMESTAMP |-> "timestamp[us,UTC]" ]

\* _BQ_FIELD_TYPE_TO_ARROW_FIELD_METADATA, by its extension name.
BQ_FIELD_TYPE_TO_ARROW_FIELD_METADATA ==
  [ GEOGRAPHY |-> "google:sqlType:geography",
    DATETIME |-> "google:sqlType:datetime",
    JSON |-> "google:sqlType:json" ]

STRUCT_TYPES == {"RECORD", "STRUCT"}

\* str.upper() on the type names the model uses.
Upper(s) ==
  CASE s = "string" -> "STRING"
    [] s = "timestamp" -> "TIMESTAMP"
    [] s = "int64" -> "INT64"
    [] s = "record" -> "RECORD"
    [] s = "range" -> "RANGE"
    [] s = "date" -> "DATE"
    [] OTHER -> s

\* bool(x) of an Arrow data type: None is false, and a StructType has a
\* __len__ (its number of fields), so a struct without fields is false too.
TypeTruthy(t) ==
  /\ t.k # "absent"
  /\ (t.k = "struct" => Len(t.fields) > 0)

\* _bq_to_arrow_scalars: the constructed type, or Absent for .get() -> None.
bq_to_arrow_scalars(bq_scalar) ==
  IF bq_scalar \in DOMAIN BQ_TO_ARROW_SCALARS
    THEN Scalar(BQ_TO_ARROW_SCALARS[bq_scalar])
    ELSE Absent

\* Raised is the result of a call that raised instead of returning.
Raised == [k |-> "raised"]

RECURSIVE bq_to_arrow_data_type(_)
RECURSIVE bq_to_arrow_field(_)
RECURSIVE StructFields(_, _)

\* pa.field(name, type, nullable, metadata), or Absent, or Raised
ArrowField(name, type, nullable, metadata) ==
  [k |-> "field", name |-> name, type |-> type, nullable |-> nullable,
   metadata |-> metadata]

\* The loop of _bq_to_arrow_struct_data_type and of to_arrow_schema over
\* the subfields from index i on: the converted fields, or Absent at the
\* first subfield that does not convert, or Raised.
StructFields(fields, i) ==
  IF i > Len(fields) THEN [k |-> "fields", fields |-> <<>>]
  ELSE LET af == bq_to_arrow_field(fields[i]) IN
       IF af.k = "raised" THEN Raised
       ELSE IF af.k = "absent" THEN Absent
       ELSE LET rest == StructFields(fields, i + 1) IN
            IF rest.k # "fields" THEN rest
            ELSE [k |-> "fields", fields |-> <<af>> \o rest.fields]

\* _bq_to_arrow_struct_data_type
bq_to_arrow_struct_data_type(field) ==
  LET r == StructFields(field.fields, 1) IN
  IF r.k = "fields" THEN [k |-> "struct", fields |-> r.fields] ELSE r

\* A conversion that gives a RANGE field without element type the
\* element type TIMESTAMP.
bq_to_arrow_range_data_type_defaulting(range_element_type) ==
  LET el == IF range_element_type = NoneV
              THEN bq_to_arrow_scalars("TIMESTAMP")
              ELSE bq_to_arrow_scalars(Upper(range_element_type))
  IN IF el.k = "absent" THEN Raised
     ELSE [k |-> "struct",
           fields |-> << ArrowField("start", el, TRUE, NoneV),
                         ArrowField("end", el, TRUE, NoneV) >>]

\* _bq_to_arrow_range_data_type: None raises ValueError; an element type
\* outside the scalar table makes _bq_to_arrow_scalars(...)() call None,
\* a TypeError.
bq_to_arrow_range_data_type(range_element_type) ==
  IF range_element_type = NoneV THEN Raised
  ELSE LET el == bq_to_arrow_scalars(Upper(range_element_type)) IN
       IF el.k = "absent" THEN Raised
       ELSE [k |-> "struct",
             fields |-> << ArrowField("start", el, TRUE, NoneV),
                           ArrowField("end", el, TRUE, NoneV) >>]

\* _bq_to_arrow_data_type
bq_to_arrow_data_type(field) ==
  IF field.mode = "REPEATED"
    THEN LET inner == bq_to_arrow_data_type([field EXCEPT !.mode = "NULLABLE"])
         IN IF inner.k = "raised" THEN Raised
            ELSE IF TypeTruthy(inner) THEN [k |-> "list", inner |-> inner]
            ELSE Absent
  ELSE LET field_type_upper ==
             IF field.field_type = NoneV THEN "" ELSE Upper(field.field_type)
       IN IF field_type_upper \in STRUCT_TYPES
            THEN bq_to_arrow_struct_data_type(field)
          ELSE IF field_type_upper = "RANGE"
            THEN bq_to_arrow_range_data_type(field.range_element_type)
          ELSE bq_to_arrow_scalars(field_type_upper)

\* _bq_to_arrow_field
bq_to_arrow_field(bq_field) ==
  LET arrow_type == bq_to_arrow_data_type(bq_field) IN
  IF arrow_type.k = "raised" THEN Raised
  ELSE IF TypeTruthy(arrow_type)
    THEN LET up == IF bq_field.field_type = NoneV THEN ""
                   ELSE Upper(bq_field.field_type)
         IN ArrowField(bq_field.name, arrow_type, bq_field.mode # "REPEATED",
                       IF up \in DOMAIN BQ_FIELD_TYPE_TO_ARROW_FIELD_METADATA
                         THEN BQ_FIELD_TYPE_TO_ARROW_FIELD_METADATA[up]
                         ELSE NoneV)
  ELSE Absent

\* to_arrow_schema
to_arrow_schema(bq_schema_list) ==
  LET r == StructFields(bq_schema_list, 1) IN
  IF r.k = "fields" THEN [k |-> "schema", fields |-> r.fields] ELSE r

\* bool(x) of self._arrow_schema: None is false, and a pa.Schema has a
\* __len__, so a schema without fields is false too.
SchemaTruthy(s) == s.k = "schema" /\ Len(s.fields) > 0


\* ------------------------------------------------------------------- state
VARIABLES
  config,            \* self._config: enabled, event_allowlist, event_denylist
  schema,            \* self._schema: the list of SchemaFields
  write_client,      \* self._write_client: a client handle or NoClient
  bq_client,         \* self._bq_client: a client handle or NoClient
  init_lock,         \* self._init_lock: TRUE once the asyncio.Lock exists
  lock_holder,       \* the unit inside `async with self._init_lock`, or 0
  lock_waiters,      \* the units suspended in Lock.acquire(), in FIFO order
  arrow_schema,      \* self._arrow_schema
  background_tasks,  \* self._background_tasks
  clients,           \* every client ever constructed: its kind, how often
                     \* its close has been called, how often create_dataset
                     \* and create_table have been called on it
  pc,                \* per unit: the await its task is suspended at
  row,               \* per unit: the row handed to _perform_write
  initRet,           \* per unit: what its _ensure_init call returned
  outcome,           \* per unit: how its task ended
  sent,              \* per unit: the client its append_rows was called on
  batch,             \* per unit: the record batch of its append_rows request
  failedAttempts,    \* initialization attempts that ended without success
  sd,                \* per shutdown() invocation: pc, the set asyncio.wait
                     \* was given, the residual count logged, the client
                     \* whose transport close it awaits, the close calls
                     \* whose failure it logged
  via,               \* per unit: the return statement of _ensure_init
                     \* that returned True
  hookResult,        \* how the last lifecycle hook invocation ended
  last_event,        \* the event_type of the data the last _log call was
                     \* given ("<no call>" before the first call)
  callerGone,        \* per unit: the scope that called _log has exited or
                     \* has been cancelled
  limits,            \* how many tasks and shutdown() calls the run makes,
                     \* whether its close() calls can fail and whether
                     \* the owner of the loop cancels tasks
  cancelling,        \* per unit: task.cancel() was called and CancelledError
                     \* has not reached the task yet: "future" when the
                     \* call cancelled the future the task awaits, "task"
                     \* when the task awaits no pending future (it has
                     \* not started, or its future has a result already)
                     \* and is only marked; "no" otherwise
  thread             \* per unit: where the create_resources thread its
                     \* initialization started is

vars == << config, schema, write_client, bq_client, init_lock, lock_holder,
           lock_waiters, arrow_schema, background_tasks, clients, pc, row,
           initRet, via, outcome, sent, batch, failedAttempts, sd,
           hookResult, last_event, callerGone, limits, cancelling, thread >>

plugin_vars == << write_client, bq_client, init_lock, lock_holder,
                  lock_waiters, arrow_schema, clients, failedAttempts >>
unit_vars == << pc, row, initRet, via, outcome, sent, batch, background_tasks >>
env_vars == << config, schema, hookResult, last_event, callerGone, limits, cancelling, thread >>

RowFields == {"timestamp", "event_type", "agent", "session_id",
              "invocation_id", "user_id", "content", "error_message"}

\* BigQueryLoggerConfig(): the dataclass defaults
DefaultConfig ==
  [enabled |-> TRUE, event_allowlist |-> None, event_denylist |-> None,
   content_formatter |-> NoneV]

\* No request built.
NoBatch == << >>

\* No logged residual count.
NoLog == -1

IdleShutdown ==
  [pc |-> "idle", wait |-> {}, logged |-> NoLog, closing |-> NoClient,
   warnings |-> {}]

\* __init__: the fields other than _config and _schema
InitFields ==
  /\ write_client = NoClient
  /\ bq_client = NoClient
  /\ init_lock = FALSE
  /\ lock_holder = 0
  /\ lock_waiters = <<>>
  /\ arrow_schema = Absent
  /\ background_tasks = {}
  /\ clients = <<>>
  /\ pc = [u \in Units |-> "unborn"]
  /\ row = [u \in Units |-> NoneV]
  /\ initRet = [u \in Units |-> "none"]
  /\ via = [u \in Units |-> "none"]
  /\ outcome = [u \in Units |-> "none"]
  /\ sent = [u \in Units |-> NoClient]
  /\ batch = [u \in Units |-> NoBatch]
  /\ failedAttempts = 0
  /\ sd = [s \in Shutdowns |-> IdleShutdown]
  /\ hookResult = "none"
  /\ last_event = "<no call>"
  /\ callerGone = [u \in Units |-> FALSE]
  /\ cancelling = [u \in Units |-> "no"]
  /\ thread = [u \in Units |-> "none"]

\* __init__(config=None): the default configuration and the fixed schema
InitPlugin == config = DefaultConfig /\ schema = PluginSchema /\ InitFields

Init == InitPlugin /\ limits = [units |-> MaxUnits, shutdowns |-> MaxShutdowns,
            faults |-> FALSE, cancels |-> TRUE]

\* ------------------------------------------------------------ _log
\* bool(x) of an Optional[List[str]]: None and the empty list are false.
ListTruthy(l) == ~l.none /\ Len(l.v) > 0
InList(x, l) == \E i \in 1..Len(l.v) : l.v[i] = x

\* A filter in which a set allow-list decides alone.
AcceptAllowFirst(event_type) ==
  /\ config.enabled
  /\ IF ListTruthy(config.event_allowlist)
       THEN InList(event_type, config.event_allowlist)
       ELSE ~(ListTruthy(config.event_denylist)
              /\ InList(event_type, config.event_denylist))

\* The three early returns of _log.
Accept(event_type) ==
  /\ config.enabled
  /\ ~(ListTruthy(config.event_denylist) /\ InList(event_type, config.event_denylist))
  /\ ~(ListTruthy(config.event_allowlist) /\ ~InList(event_type, config.event_allowlist))

\* data.get("event_type")
EventTypeOf(data) == IF "event_type" \in DOMAIN data THEN data.event_type ELSE NoneV

\* A merge in which the capture time is written last.
MergeRowKeepingCaptureTime(data) ==
  [f \in RowFields \cup DOMAIN data |->
     IF f = "timestamp" THEN "now"
     ELSE IF f \in DOMAIN data THEN data[f] ELSE NoneV]

\* row = {...defaults...}; row.update(data)
MergeRow(data) ==
  [f \in RowFields \cup DOMAIN data |->
     IF f \in DOMAIN data THEN data[f]
     ELSE IF f = "timestamp" THEN "now" ELSE NoneV]

\* Tasks are numbered in the order asyncio.create_task makes them.
NextUnit == Cardinality({u \in Units : pc[u] # "unborn"}) + 1

\* _log that awaits the write it schedules: it cannot go on before the
\* write client exists.
LogAwaitingWrite(data) ==
  /\ last_event' = EventTypeOf(data)
  /\ IF Accept(EventTypeOf(data))
       THEN /\ write_client # NoClient
            /\ NextUnit <= limits.units
            /\ pc' = [pc EXCEPT ![NextUnit] = "created"]
            /\ row' = [row EXCEPT ![NextUnit] = MergeRow(data)]
            /\ background_tasks' = background_tasks \cup {NextUnit}
            /\ UNCHANGED << initRet, via, outcome, sent, batch >>
       ELSE UNCHANGED unit_vars

\* _log without its early returns.
LogUnfiltered(data) ==
  /\ last_event' = EventTypeOf(data)
  /\ NextUnit <= limits.units
  /\ pc' = [pc EXCEPT ![NextUnit] = "created"]
  /\ row' = [row EXCEPT ![NextUnit] = MergeRow(data)]
  /\ background_tasks' = background_tasks \cup {NextUnit}
  /\ UNCHANGED << initRet, via, outcome, sent, batch >>

\* _log that makes the task and does not add it to the set.
LogUntracked(data) ==
  /\ last_event' = EventTypeOf(data)
  /\ IF Accept(EventTypeOf(data))
       THEN /\ NextUnit <= limits.units
            /\ pc' = [pc EXCEPT ![NextUnit] = "created"]
            /\ row' = [row EXCEPT ![NextUnit] = MergeRow(data)]
            /\ UNCHANGED << initRet, via, outcome, sent, batch, background_tasks >>
       ELSE UNCHANGED unit_vars

\* _log(data): no await, so one step.  A filtered event changes nothing;
\* an accepted one makes the task, adds it to the set and registers the
\* done callback.
Log(data) ==
  /\ last_event' = EventTypeOf(data)
  /\ IF Accept(EventTypeOf(data))
       THEN /\ NextUnit <= limits.units
            /\ pc' = [pc EXCEPT ![NextUnit] = "created"]
            /\ row' = [row EXCEPT ![NextUnit] = MergeRow(data)]
            /\ background_tasks' = background_tasks \cup {NextUnit}
            /\ UNCHANGED << initRet, via, outcome, sent, batch >>
       ELSE UNCHANGED unit_vars

\* The identifiers a callback context carries.
Ctx == [agent_name |-> "agent", session_id |-> "s1", invocation_id |-> "i1",
        user_id |-> "u1"]

\* A hook that puts the error's text in the content column.
on_model_error_callback_content(error) ==
  /\ Log([event_type |-> "LLM_ERROR", agent |-> Ctx.agent_name,
          session_id |-> Ctx.session_id, invocation_id |-> Ctx.invocation_id,
          user_id |-> Ctx.user_id, content |-> error])
  /\ hookResult' = "returned"
  /\ UNCHANGED << config, schema, plugin_vars, sd, callerGone, limits, cancelling, thread >>

\* on_model_error_callback
on_model_error_callback(error) ==
  /\ Log([event_type |-> "LLM_ERROR", agent |-> Ctx.agent_name,
          session_id |-> Ctx.session_id, invocation_id |-> Ctx.invocation_id,
          user_id |-> Ctx.user_id, error_message |-> error])
  /\ hookResult' = "returned"
  /\ UNCHANGED << config, schema, plugin_vars, sd, callerGone, limits, cancelling, thread >>

\* before_run_callback
before_run_callback ==
  /\ Log([event_type |-> "INVOCATION_STARTING", agent |-> Ctx.agent_name,
          session_id |-> Ctx.session_id, invocation_id |-> Ctx.invocation_id,
          user_id |-> Ctx.user_id])
  /\ hookResult' = "returned"
  /\ UNCHANGED << config, schema, plugin_vars, sd, callerGone, limits, cancelling, thread >>

\* after_run_callback
after_run_callback ==
  /\ Log([event_type |-> "INVOCATION_COMPLETED", agent |-> Ctx.agent_name,
          session_id |-> Ctx.session_id, invocation_id |-> Ctx.invocation_id,
          user_id |-> Ctx.user_id])
  /\ hookResult' = "returned"
  /\ UNCHANGED << config, schema, plugin_vars, sd, callerGone, limits, cancelling, thread >>

\* str.join
RECURSIVE Join(_, _)
Join(strs, sep) ==
  IF Len(strs) = 0 THEN ""
  ELSE IF Len(strs) = 1 THEN strs[1]
  ELSE strs[1] \o sep \o Join(Tail(strs), sep)

\* str(list(d.keys())) of string keys: "['a', 'b']"
ReprList(keys) ==
  "[" \o Join([i \in 1..Len(keys) |-> "'" \o keys[i] \o "'"], ", ") \o "]"

\* A system instruction is None, a str, a types.Content (parts: None or
\* Some list of parts), a types.Part or a list of str and Part items; a
\* part is modelled by its text (NoneV for a part without text).
SiNone == [t |-> "none"]
SiStr(text) == [t |-> "str", text |-> text]
SiContent(parts) == [t |-> "Content", parts |-> parts]
SiPart(text) == [t |-> "Part", text |-> text]
SiList(items) == [t |-> "list", items |-> items]

\* bool(si): None, "" and [] are false; a Content or a Part is an object
\* without __bool__ or __len__, so it is true.
SiTruthy(si) ==
  CASE si.t = "none" -> FALSE
    [] si.t = "str" -> si.text # ""
    [] si.t = "list" -> Len(si.items) > 0
    [] OTHER -> TRUE

\* bool(p.text) of a part
TextTruthy(text) == text # NoneV /\ text # ""

\* The texts a join keeps: `p.text for p in parts if p.text`, and for a
\* list the str items and the Part items with text.
KeptTexts(items) ==
  LET keep(i) == IF items[i].t = "str" THEN TRUE ELSE TextTruthy(items[i].text)
      idx == SelectSeq([i \in 1..Len(items) |-> i], keep)
  IN [j \in 1..Len(idx) |-> items[idx[j]].text]

\* A str result of a computation that may raise instead.
Str(text) == [k |-> "str", text |-> text]

\* The system_instruction_text of before_model_callback: the text, or
\* Raised when the code raises ("".join over the parts of a Content whose
\* parts is None is a TypeError).  A Part without text gives None, which
\* the f-string prints as "None".
SystemInstructionText(cfg) ==
  IF cfg.none THEN Str("None")
  ELSE LET si == cfg.v.system_instruction IN
       IF ~SiTruthy(si) THEN Str("Empty")
       ELSE CASE si.t = "str" -> Str(si.text)
              [] si.t = "Content" ->
                   IF si.parts.none THEN Raised
                   ELSE Str(Join(KeptTexts([i \in 1..Len(si.parts.v) |->
                                              SiPart(si.parts.v[i])]), ""))
              [] si.t = "Part" ->
                   Str(IF si.text = NoneV THEN "None" ELSE si.text)
              [] si.t = "list" -> Str(Join(KeptTexts(si.items), ""))

\* The generation parameters that are not None, as "k=v", in the order
\* the code tests them; a value is modelled by its str().
ParamNames == << "temperature", "top_p", "top_k", "max_output_tokens" >>
ParamsToLog(cfg) ==
  LET set(i) == cfg[ParamNames[i]] # NoneV
      idx == SelectSeq([i \in 1..Len(ParamNames) |-> i], set)
  IN [j \in 1..Len(idx) |->
        ParamNames[idx[j]] \o "=" \o cfg[ParamNames[idx[j]]]]

\* final_content of before_model_callback, or Raised.
ModelRequestContent(llm_request) ==
  LET sit == SystemInstructionText(llm_request.config)
      model == IF llm_request.model = NoneV \/ llm_request.model = ""
                 THEN "default" ELSE llm_request.model
      params == IF llm_request.config.none THEN <<>>
                ELSE ParamsToLog(llm_request.config.v)
  IN IF sit.k = "raised" THEN Raised
     ELSE Str(Join(<< "Model: " \o model, "System Prompt: " \o sit.text >>
                   \o (IF Len(params) > 0
                         THEN << "Params: {" \o Join(params, ", ") \o "}" >>
                         ELSE <<>>)
                   \o (IF Len(llm_request.tools_dict) > 0
                         THEN << "Available Tools: "
                                 \o ReprList(llm_request.tools_dict) >>
                         ELSE <<>>),
                   " | "))

\* before_model_callback: an exception of the content construction leaves
\* the hook before _log is called and reaches the caller of the hook.
before_model_callback(llm_request) ==
  LET final_content == ModelRequestContent(llm_request) IN
  /\ IF final_content.k = "raised"
       THEN /\ hookResult' = "raised"
            /\ UNCHANGED << unit_vars, last_event >>
       ELSE /\ Log([event_type |-> "LLM_REQUEST", agent |-> Ctx.agent_name,
                    session_id |-> Ctx.session_id,
                    invocation_id |-> Ctx.invocation_id,
                    user_id |-> Ctx.user_id, content |-> final_content.text])
            /\ hookResult' = "returned"
  /\ UNCHANGED << config, schema, plugin_vars, sd, callerGone, limits, cancelling, thread >>

\* ------------------------------------------------------- on_event_callback
\* An Event: its author, its content (None, or Some list of parts; a part
\* has a text, a function_call name or a function_response name), its
\* error_message and its timestamp (seconds since the epoch).
Part(text, function_call, function_response) ==
  [text |-> text, function_call |-> function_call,
   function_response |-> function_response]

\* A FunctionCall or FunctionResponse whose name is None.
Unnamed == "<unnamed>"

Event(author, content, error_message, timestamp) ==
  [author |-> author, content |-> content, error_message |-> error_message,
   timestamp |-> timestamp]

\* event.content and event.content.parts
HasParts(event) == ~event.content.none /\ Len(event.content.v) > 0

\* event.get_function_calls() / event.get_function_responses() is not empty
HasFunctionCalls(event) ==
  /\ ~event.content.none
  /\ \E i \in 1..Len(event.content.v) : event.content.v[i].function_call # NoneV
HasFunctionResponses(event) ==
  /\ ~event.content.none
  /\ \E i \in 1..Len(event.content.v) :
       event.content.v[i].function_response # NoneV

\* A classification that looks for function responses before function
\* calls.
get_event_type_responses_first(event) ==
  IF event.author = "user" THEN "USER_INPUT"
  ELSE IF HasFunctionResponses(event) THEN "TOOL_RESULT"
  ELSE IF HasFunctionCalls(event) THEN "TOOL_CALL"
  ELSE IF HasParts(event) THEN "MODEL_RESPONSE"
  ELSE IF event.error_message # NoneV /\ event.error_message # "" THEN "ERROR"
  ELSE "SYSTEM"

\* _get_event_type
get_event_type(event) ==
  IF event.author = "user" THEN "USER_INPUT"
  ELSE IF HasFunctionCalls(event) THEN "TOOL_CALL"
  ELSE IF HasFunctionResponses(event) THEN "TOOL_RESULT"
  ELSE IF HasParts(event) THEN "MODEL_RESPONSE"
  ELSE IF event.error_message # NoneV /\ event.error_message # "" THEN "ERROR"
  ELSE "SYSTEM"

\* json.dumps of a str or None: the string in quotes, or null.
JsonStr(x) == IF x = NoneV \/ x = Unnamed THEN "null" ELSE "\"" \o x \o "\""

\* json.dumps of the dump of a FunctionCall or FunctionResponse, or of
\* None: model_dump writes the name under its key also when it is None.
JsonNamed(x) ==
  IF x = NoneV THEN "null" ELSE "{\"name\": " \o JsonStr(x) \o "}"

\* part.model_dump(mode="json") written by json.dumps: model_dump is
\* called without exclude_none, so every field of the part is a key and
\* a field that is None is written as null.  The fields are those the
\* part has here, in the order of Part.
PartJson(p) ==
  "{\"text\": " \o JsonStr(p.text)
    \o ", \"function_call\": " \o JsonNamed(p.function_call)
    \o ", \"function_response\": " \o JsonNamed(p.function_response)
    \o "}"

\* json.dumps([part.model_dump(mode="json") for part in parts])
JsonDumps(parts) ==
  "[" \o Join([i \in 1..Len(parts) |-> PartJson(parts[i])], ", ") \o "]"

\* datetime.fromtimestamp(event.timestamp, timezone.utc)
FromTimestamp(timestamp) == "utc:" \o timestamp

\* The dictionary on_event_callback gives to _log.
on_event_data(event) ==
  [event_type |-> get_event_type(event), agent |-> event.author,
   session_id |-> Ctx.session_id, invocation_id |-> Ctx.invocation_id,
   user_id |-> Ctx.user_id,
   content |-> IF HasParts(event) THEN JsonDumps(event.content.v) ELSE NoneV,
   error_message |-> event.error_message,
   timestamp |-> FromTimestamp(event.timestamp)]

\* on_event_callback
on_event_callback(event) ==
  /\ Log(on_event_data(event))
  /\ hookResult' = "returned"
  /\ UNCHANGED << config, schema, plugin_vars, sd, callerGone, limits, cancelling, thread >>

\* await self._log(data), called with a dictionary of the caller's making.
log_call(data) ==
  /\ Log(data)
  /\ UNCHANGED << config, schema, plugin_vars, sd, hookResult, callerGone,
                  limits, cancelling, thread >>

\* ------------------------------------------------ on_user_message_callback
\* _format_content, with max_len = 500: "None" for a content without
\* parts, else one item for each part, joined by " | ".
MaxContentLen == 500
\* str(x) inside an f-string, for x a str or None
FStr(x) == IF x = NoneV \/ x = Unnamed THEN "None" ELSE x
FormatPart(p) ==
  IF TextTruthy(p.text)
    THEN IF Len(p.text) > MaxContentLen
           THEN "text: '" \o SubSeq(p.text, 1, MaxContentLen) \o "...' "
           ELSE "text: '" \o p.text \o "'"
  ELSE IF p.function_call # NoneV THEN "call: " \o FStr(p.function_call)
  ELSE IF p.function_response # NoneV
    THEN "resp: " \o FStr(p.function_response)
  ELSE "other"
format_content(content) ==
  IF content.none \/ Len(content.v) = 0 THEN "None"
  ELSE Join([i \in 1..Len(content.v) |-> FormatPart(content.v[i])], " | ")

\* self._config.content_formatter(content) for the formatters of the
\* runs: "returns" gives a string for every content, "raises" raises an
\* Exception for every content, "strict" raises for a content without
\* parts and gives a string otherwise.
CallFormatter(formatter, content) ==
  CASE formatter = "returns" -> Str("custom")
    [] formatter = "raises" -> Raised
    [] formatter = "strict" ->
         IF content.none \/ Len(content.v) = 0 THEN Raised
         ELSE Str("custom:" \o format_content(content))

\* _format_content_safely that falls back on _format_content when the
\* configured formatter raises.
format_content_safely_falling_back(content) ==
  IF content.none THEN NoneV
  ELSE IF config.content_formatter # NoneV
    THEN LET r == CallFormatter(config.content_formatter, content)
         IN IF r.k = "raised" THEN format_content(content) ELSE r.text
  ELSE format_content(content)

\* _format_content_safely
format_content_safely(content) ==
  IF content.none THEN NoneV
  ELSE IF config.content_formatter # NoneV
    THEN LET r == CallFormatter(config.content_formatter, content)
         IN IF r.k = "raised" THEN "[FORMATTING FAILED]" ELSE r.text
  ELSE format_content(content)

\* The dictionary on_user_message_callback gives to _log.
on_user_message_data(user_message) ==
  [event_type |-> "USER_MESSAGE_RECEIVED", agent |-> Ctx.agent_name,
   session_id |-> Ctx.session_id, invocation_id |-> Ctx.invocation_id,
   user_id |-> Ctx.user_id,
   content |-> "User Content: " \o FStr(format_content_safely(user_message))]

\* on_user_message_callback
on_user_message_callback(user_message) ==
  /\ Log(on_user_message_data(user_message))
  /\ hookResult' = "returned"
  /\ UNCHANGED << config, schema, plugin_vars, sd, callerGone, limits, cancelling, thread >>

\* ------------------------------------------- agent, model and tool hooks
\* before_agent_callback
before_agent_callback(agent) ==
  /\ Log([event_type |-> "AGENT_STARTING", agent |-> agent.name,
          session_id |-> Ctx.session_id, invocation_id |-> Ctx.invocation_id,
          user_id |-> Ctx.user_id,
          content |-> "Agent Name: " \o Ctx.agent_name])
  /\ hookResult' = "returned"
  /\ UNCHANGED << config, schema, plugin_vars, sd, callerGone, limits, cancelling, thread >>

\* after_agent_callback
after_agent_callback(agent) ==
  /\ Log([event_type |-> "AGENT_COMPLETED", agent |-> agent.name,
          session_id |-> Ctx.session_id, invocation_id |-> Ctx.invocation_id,
          user_id |-> Ctx.user_id,
          content |-> "Agent Name: " \o Ctx.agent_name])
  /\ hookResult' = "returned"
  /\ UNCHANGED << config, schema, plugin_vars, sd, callerGone, limits, cancelling, thread >>

\* content.parts has a part with a function_call
IsToolCall(content) ==
  /\ ~content.none
  /\ \E i \in 1..Len(content.v) : content.v[i].function_call # NoneV

\* [part.function_call.name for part in content.parts if part.function_call]
FcNames(content) ==
  LET calls == SelectSeq(content.v, LAMBDA part : part.function_call # NoneV)
  IN [i \in 1..Len(calls) |-> calls[i].function_call]

\* getattr(usage_metadata, name, "N/A") inside an f-string: the attribute
\* can be missing, None or a number.
Missing == "<missing>"
GetAttr(x) == IF x = Missing THEN "N/A" ELSE FStr(x)

\* final_content of after_model_callback, or Raised: ', '.join(fc_names)
\* raises TypeError when a name is None.
ModelResponseContent(llm_response) ==
  LET content == llm_response.content
      usage == llm_response.usage_metadata
      token_usage ==
        IF usage.none THEN <<>>
        ELSE << "Token Usage: {prompt: " \o GetAttr(usage.v.prompt_token_count)
                \o ", candidates: " \o GetAttr(usage.v.candidates_token_count)
                \o ", total: " \o GetAttr(usage.v.total_token_count) \o "}" >>
  IN IF IsToolCall(content)
       THEN IF \E i \in 1..Len(FcNames(content)) :
                  FcNames(content)[i] = Unnamed
              THEN Raised
              ELSE Str(Join(<< "Tool Name: " \o Join(FcNames(content), ", ") >>
                            \o token_usage, " | "))
       ELSE Str(Join(<< "Tool Name: text_response, "
                        \o FStr(format_content_safely(content)) >>
                     \o token_usage, " | "))

\* after_model_callback: an exception of the content construction leaves
\* the hook before _log is called and reaches the caller of the hook.
after_model_callback(llm_response) ==
  LET final_content == ModelResponseContent(llm_response) IN
  /\ IF final_content.k = "raised"
       THEN /\ hookResult' = "raised"
            /\ UNCHANGED << unit_vars, last_event >>
       ELSE /\ Log([event_type |-> "LLM_RESPONSE", agent |-> Ctx.agent_name,
                    session_id |-> Ctx.session_id,
                    invocation_id |-> Ctx.invocation_id,
                    user_id |-> Ctx.user_id, content |-> final_content.text,
                    error_message |-> llm_response.error_message])
            /\ hookResult' = "returned"
  /\ UNCHANGED << config, schema, plugin_vars, sd, callerGone, limits, cancelling, thread >>

\* A dict of tool arguments or results is None or Some list of items
\* <<key, value>>; a key is a str, a value a str ("str") or a value
\* json.dumps has no encoding for ("obj"), given by its repr.
ArgStr(text) == [k |-> "str", v |-> text]
ArgObj(repr) == [k |-> "obj", v |-> repr]

\* json.dumps(args) of a dict whose values are str
JsonDumpsArgs(items) ==
  "{" \o Join([i \in 1..Len(items) |->
                 "\"" \o items[i][1] \o "\": \"" \o items[i][2].v \o "\""],
              ", ") \o "}"

\* str(args)
StrArgs(items) ==
  "{" \o Join([i \in 1..Len(items) |->
                 "'" \o items[i][1] \o "': "
                 \o (IF items[i][2].k = "str"
                       THEN "'" \o items[i][2].v \o "'" ELSE items[i][2].v)],
              ", ") \o "}"

\* _format_args, with max_len = 1000
MaxArgsLen == 1000
format_args(args) ==
  IF args.none \/ Len(args.v) = 0 THEN "{}"
  ELSE LET s == IF \A i \in 1..Len(args.v) : args.v[i][2].k = "str"
                  THEN JsonDumpsArgs(args.v) ELSE StrArgs(args.v)
       IN IF Len(s) > MaxArgsLen THEN SubSeq(s, 1, MaxArgsLen) \o "..." ELSE s

\* before_tool_callback
before_tool_callback(tool, tool_args) ==
  /\ Log([event_type |-> "TOOL_STARTING", agent |-> Ctx.agent_name,
          session_id |-> Ctx.session_id, invocation_id |-> Ctx.invocation_id,
          user_id |-> Ctx.user_id,
          content |-> "Tool Name: " \o FStr(tool.name) \o ", Description: "
                      \o FStr(tool.description) \o ", Arguments: "
                      \o format_args(tool_args)])
  /\ hookResult' = "returned"
  /\ UNCHANGED << config, schema, plugin_vars, sd, callerGone, limits, cancelling, thread >>

\* after_tool_callback
after_tool_callback(tool, result) ==
  /\ Log([event_type |-> "TOOL_COMPLETED", agent |-> Ctx.agent_name,
          session_id |-> Ctx.session_id, invocation_id |-> Ctx.invocation_id,
          user_id |-> Ctx.user_id,
          content |-> "Tool Name: " \o FStr(tool.name) \o ", Result: "
                      \o format_args(result)])
  /\ hookResult' = "returned"
  /\ UNCHANGED << config, schema, plugin_vars, sd, callerGone, limits, cancelling, thread >>

\* on_tool_error_callback
on_tool_error_callback(tool, tool_args, error) ==
  /\ Log([event_type |-> "TOOL_ERROR", agent |-> Ctx.agent_name,
          session_id |-> Ctx.session_id, invocation_id |-> Ctx.invocation_id,
          user_id |-> Ctx.user_id,
          content |-> "Tool Name: " \o FStr(tool.name) \o ", Arguments: "
                      \o format_args(tool_args),
          error_message |-> error])
  /\ hookResult' = "returned"
  /\ UNCHANGED << config, schema, plugin_vars, sd, callerGone, limits, cancelling, thread >>

\* ------------------------------------------------- _perform_write, its tail
\* row.get(name)
RowGet(r, name) == IF name \in DOMAIN r THEN r[name] ELSE NoneV

\* A serialization that makes a column for every key of the row.
RecordBatchOfRowKeys(r, sch) ==
  LET keys == DOMAIN r
      RECURSIVE ColumnsOf(_)
      ColumnsOf(ks) ==
        IF ks = {} THEN << >>
        ELSE LET k == CHOOSE x \in ks : TRUE
             IN << [name |-> k, values |-> << r[k] >>] >> \o ColumnsOf(ks \ {k})
  IN ColumnsOf(keys)

\* pydict = {f.name: [row.get(f.name)] for f in self._arrow_schema};
\* pa.RecordBatch.from_pydict(pydict, schema=self._arrow_schema): one
\* column per field of the schema, in the schema's order, each holding the
\* one value the row has under the field's name (None if it has none).
\* A key of the row that names no field of the schema is left out.
RecordBatch(r, sch) ==
  [i \in 1..Len(sch.fields) |->
     [name |-> sch.fields[i].name, values |-> << RowGet(r, sch.fields[i].name) >>]]

\* _perform_write after _ensure_init returned True, up to the await of
\* asyncio.shield(append_rows(...)): the `not self._write_client or not
\* self._arrow_schema` test, the serialization and the call.  wc and sch
\* are the values of the two fields when _ensure_init returns.
\* A test for None instead of the truth value of the schema.
CanWriteUnlessNone(wc, sch) == wc # NoClient /\ sch.k = "schema"

CanWrite(wc, sch) == wc # NoClient /\ SchemaTruthy(sch)

WriteTail(u, wc, sch, path) ==
  /\ initRet' = [initRet EXCEPT ![u] = "true"]
  /\ via' = [via EXCEPT ![u] = path]
  /\ IF CanWrite(wc, sch)
       THEN /\ pc' = [pc EXCEPT ![u] = "append"]
            /\ sent' = [sent EXCEPT ![u] = wc]
            /\ batch' = [batch EXCEPT ![u] = RecordBatch(row[u], sch)]
            /\ UNCHANGED outcome
       ELSE /\ pc' = [pc EXCEPT ![u] = "done"]
            /\ outcome' = [outcome EXCEPT ![u] = "skipped"]
            /\ UNCHANGED << sent, batch >>

\* _ensure_init returned False (the except branch): _perform_write returns.
InitFailed(u) ==
  /\ initRet' = [initRet EXCEPT ![u] = "false"]
  /\ pc' = [pc EXCEPT ![u] = "done"]
  /\ outcome' = [outcome EXCEPT ![u] = "skipped"]
  /\ failedAttempts' = failedAttempts + 1
  /\ UNCHANGED << sent, batch, via >>

\* A lock that is acquired and not released.
ReleaseMissing == UNCHANGED lock_holder

\* Leaving `async with self._init_lock`: Lock.release().  The first waiter
\* is woken and takes the lock when its task next runs (LockAcquired).
Release == lock_holder' = 0

\* A new client of a kind: appended to clients, its handle is its index.
NewClient(kind) ==
  Append(clients, [kind |-> kind, closes |-> 0, datasets |-> 0, tables |-> 0])

\* ------------------------------------------------ _perform_write, first step
\* The task starts: _ensure_init up to its first suspension.
\*  - _write_client set: return True at once;
\*  - else create the lock if there is none and acquire it: Lock.acquire()
\*    returns without suspending when the lock is free and every future
\*    in its queue is cancelled (`not self._locked and all(w.cancelled()
\*    for w in self._waiters)`), and the caller, _write_client still
\*    None, starts the credentials thread; otherwise the caller suspends
\*    in acquire().
\* The lock is free and no waiter with a live future is queued.
CanTakeLock ==
  /\ lock_holder = 0
  /\ \A i \in 1..Len(lock_waiters) : cancelling[lock_waiters[i]] = "future"

\* A caller that makes a lock of its own instead of using the one that
\* exists: it never waits for another caller.
StartOwnLock(u) ==
  /\ pc[u] = "created"
  /\ cancelling[u] = "no"
  /\ IF write_client # NoClient
       THEN /\ WriteTail(u, write_client, arrow_schema, "first_check")
            /\ UNCHANGED << init_lock, lock_holder, lock_waiters >>
       ELSE /\ init_lock' = TRUE
            /\ lock_holder' = u
            /\ pc' = [pc EXCEPT ![u] = "creds"]
            /\ UNCHANGED << lock_waiters, initRet, via, outcome, sent, batch >>
  /\ UNCHANGED << config, schema, write_client, bq_client, arrow_schema, clients,
                  failedAttempts, background_tasks, row, sd, hookResult, last_event,
                  callerGone, limits, cancelling, thread >>

\* _ensure_init without its first `if self._write_client`: every caller
\* goes to the lock.
StartAlwaysLocking(u) ==
  /\ pc[u] = "created"
  /\ cancelling[u] = "no"
  /\ init_lock' = TRUE
  /\ lock_waiters' = Append(lock_waiters, u)
  /\ pc' = [pc EXCEPT ![u] = "lockwait"]
  /\ UNCHANGED << lock_holder, initRet, via, outcome, sent, batch >>
  /\ UNCHANGED << config, schema, write_client, bq_client, arrow_schema, clients,
                  failedAttempts, background_tasks, row, sd, hookResult, last_event,
                  callerGone, limits, cancelling, thread >>

Start(u) ==
  /\ pc[u] = "created"
  /\ cancelling[u] = "no"
  /\ IF write_client # NoClient
       THEN /\ WriteTail(u, write_client, arrow_schema, "first_check")
            /\ UNCHANGED << init_lock, lock_holder, lock_waiters >>
       ELSE /\ init_lock' = TRUE
            /\ IF CanTakeLock
                 THEN /\ lock_holder' = u
                      /\ pc' = [pc EXCEPT ![u] = "creds"]
                      /\ UNCHANGED lock_waiters
                 ELSE /\ lock_waiters' = Append(lock_waiters, u)
                      /\ pc' = [pc EXCEPT ![u] = "lockwait"]
                      /\ UNCHANGED lock_holder
            /\ UNCHANGED << initRet, via, outcome, sent, batch >>
  /\ UNCHANGED << config, schema, write_client, bq_client, arrow_schema, clients,
                  failedAttempts, background_tasks, row, sd, hookResult, last_event,
                  callerGone, limits, cancelling, thread >>

\* A woken waiter resumes in Lock.acquire() and holds the lock (release()
\* and a cancelled waiter's acquire() wake the first future of the queue
\* if it is not done: a cancelled future at the head keeps the others
\* asleep until its task has left the queue); the second
\* `if self._write_client` returns True (releasing the lock) or the caller
\* starts the credentials thread.
LockAcquired(u) ==
  /\ pc[u] = "lockwait"
  /\ cancelling[u] = "no"
  /\ lock_holder = 0
  /\ lock_waiters # <<>> /\ Head(lock_waiters) = u
  /\ lock_waiters' = Tail(lock_waiters)
  /\ IF write_client # NoClient
       THEN /\ WriteTail(u, write_client, arrow_schema, "second_check")
            /\ UNCHANGED lock_holder
       ELSE /\ lock_holder' = u
            /\ pc' = [pc EXCEPT ![u] = "creds"]
            /\ UNCHANGED << initRet, via, outcome, sent, batch >>
  /\ UNCHANGED << config, schema, write_client, bq_client, init_lock, arrow_schema,
                  clients, failedAttempts, background_tasks, row, sd,
                  hookResult, last_event, callerGone, limits, cancelling, thread >>

\* await asyncio.to_thread(google.auth.default) ends, then bigquery.Client()
\* is constructed and the create_resources thread is started.  res: "ok",
\* or the step that raised.
CredsDone(u, res) ==
  /\ pc[u] = "creds"
  /\ cancelling[u] = "no"
  /\ IF res = "ok"
       THEN /\ clients' = NewClient("bq")
            /\ bq_client' = Len(clients) + 1
            /\ pc' = [pc EXCEPT ![u] = "provision"]
            /\ thread' = [thread EXCEPT ![u] = "started"]
            /\ UNCHANGED << lock_holder, initRet, via, outcome, sent, batch,
                            failedAttempts >>
       ELSE /\ Release
            /\ InitFailed(u)
            /\ UNCHANGED << clients, bq_client, thread >>
  /\ UNCHANGED << config, schema, write_client, init_lock, lock_waiters, arrow_schema,
                  background_tasks, row, sd, hookResult, last_event, callerGone,
                  limits, cancelling >>

\* create_resources runs in a thread while the event loop goes on, and it
\* goes on when the task that awaits it is cancelled.  It reads
\* self._bq_client three times: in its `if`, for the create_dataset call
\* and for the create_table call; shutdown() and a later initialization
\* can assign the field in between.  The result of a thread nobody
\* awaits any more is dropped.
ThreadOver(u, result) == IF pc[u] = "provision" THEN result ELSE "none"

\* `if self._bq_client:` with None, the function returns at once.
ThreadCheck(u) ==
  /\ thread[u] = "started"
  /\ thread' = [thread EXCEPT ![u] =
                  IF bq_client = NoClient THEN ThreadOver(u, "returned")
                  ELSE "checked"]
  /\ UNCHANGED << config, schema, plugin_vars, unit_vars, sd, hookResult,
                  last_event, callerGone, limits, cancelling >>

\* self._bq_client.create_dataset(...) is called; on None the attribute
\* access raises.
ThreadCreateDataset(u) ==
  /\ thread[u] = "checked"
  /\ IF bq_client = NoClient
       THEN /\ thread' = [thread EXCEPT ![u] = ThreadOver(u, "raised")]
            /\ UNCHANGED clients
       ELSE /\ thread' = [thread EXCEPT ![u] = "dataset"]
            /\ clients' = [clients EXCEPT ![bq_client].datasets = @ + 1]
  /\ UNCHANGED << config, schema, write_client, bq_client, init_lock, lock_holder,
                  lock_waiters, arrow_schema, failedAttempts, unit_vars, sd,
                  hookResult, last_event, callerGone, limits, cancelling >>

\* create_dataset returns ("ok") or raises; after its return
\* self._bq_client.create_table(...) is called, and on None the attribute
\* access raises.
ThreadCreateTable(u, res) ==
  /\ thread[u] = "dataset"
  /\ IF res = "failed" \/ bq_client = NoClient
       THEN /\ thread' = [thread EXCEPT ![u] = ThreadOver(u, "raised")]
            /\ UNCHANGED clients
       ELSE /\ thread' = [thread EXCEPT ![u] = "table"]
            /\ clients' = [clients EXCEPT ![bq_client].tables = @ + 1]
  /\ UNCHANGED << config, schema, write_client, bq_client, init_lock, lock_holder,
                  lock_waiters, arrow_schema, failedAttempts, unit_vars, sd,
                  hookResult, last_event, callerGone, limits, cancelling >>

\* The create_table call of a thread whose task was cancelled returns or
\* raises: the thread ends and nobody reads its result.
ThreadEnd(u) ==
  /\ thread[u] = "table"
  /\ pc[u] # "provision"
  /\ thread' = [thread EXCEPT ![u] = "none"]
  /\ UNCHANGED << config, schema, plugin_vars, unit_vars, sd, hookResult,
                  last_event, callerGone, limits, cancelling >>

\* How the thread the task awaits has ended: create_resources returned
\* or raised before its last call, or that call, create_table, returns
\* (res = "ok") or raises.
ThreadResult(u, res) ==
  IF thread[u] = "table" THEN (IF res = "ok" THEN "returned" ELSE "raised")
  ELSE thread[u]

\* await asyncio.to_thread(create_resources) ends.  If the thread
\* returned, BigQueryWriteAsyncClient() is constructed, the schema
\* resolved and True returned; if it raised, the except branch returns
\* False.
ProvisionDone(u, res) ==
  /\ pc[u] = "provision"
  /\ cancelling[u] = "no"
  /\ thread[u] \in {"table", "returned", "raised"}
  /\ thread[u] # "table" => res = "ok"
  /\ thread' = [thread EXCEPT ![u] = "none"]
  /\ Release
  /\ IF ThreadResult(u, res) = "returned"
       THEN LET sch == to_arrow_schema(schema) IN
            /\ clients' = NewClient("write")
            /\ write_client' = Len(clients) + 1
            /\ IF sch.k = "raised"
                 THEN /\ InitFailed(u)
                      /\ UNCHANGED arrow_schema
                 ELSE /\ arrow_schema' = sch
                      /\ WriteTail(u, Len(clients) + 1, sch, "initialized")
                      /\ UNCHANGED failedAttempts
       ELSE /\ InitFailed(u)
            /\ UNCHANGED << clients, write_client, arrow_schema >>
  /\ UNCHANGED << config, schema, bq_client, init_lock, lock_waiters,
                  background_tasks, row, sd, hookResult, last_event, callerGone,
                  limits, cancelling >>

\* A unit that, after a failed write, schedules its row again.
AppendDoneRescheduling(u, res) ==
  /\ pc[u] = "append"
  /\ cancelling[u] = "no"
  /\ outcome' = [outcome EXCEPT ![u] = res]
  /\ via' = [via EXCEPT ![u] = "none"]
  /\ sent' = [sent EXCEPT ![u] = NoClient]
  /\ batch' = [batch EXCEPT ![u] = NoBatch]
  /\ IF res # "written" /\ NextUnit <= limits.units
       THEN /\ pc' = [pc EXCEPT ![u] = "done", ![NextUnit] = "created"]
            /\ row' = [row EXCEPT ![NextUnit] = row[u]]
            /\ background_tasks' = background_tasks \cup {NextUnit}
       ELSE /\ pc' = [pc EXCEPT ![u] = "done"]
            /\ UNCHANGED << row, background_tasks >>
  /\ UNCHANGED << config, schema, plugin_vars, initRet, sd, hookResult, last_event,
                  callerGone, limits, cancelling, thread >>

\* The awaited append_rows stream ends: every response had status 0
\* ("written"), one had a non-zero status (logged), or the call raised
\* (logged).  The task ends in each case, and with it the coroutine's
\* hold on the client it wrote to.
AppendDone(u, res) ==
  /\ pc[u] = "append"
  /\ cancelling[u] = "no"
  /\ pc' = [pc EXCEPT ![u] = "done"]
  /\ outcome' = [outcome EXCEPT ![u] = res]
  /\ via' = [via EXCEPT ![u] = "none"]
  /\ sent' = [sent EXCEPT ![u] = NoClient]
  /\ batch' = [batch EXCEPT ![u] = NoBatch]
  /\ UNCHANGED << config, schema, plugin_vars, background_tasks, row, initRet,
                  sd, hookResult, last_event, callerGone, limits, cancelling, thread >>

\* The task is suspended in Lock.acquire() and its future has the result
\* a release gave it.
Woken(u) ==
  /\ pc[u] = "lockwait"
  /\ lock_holder = 0
  /\ lock_waiters # <<>> /\ Head(lock_waiters) = u

\* task.cancel() by the event loop's owner.  It only requests: the future
\* the task awaits is cancelled, or, if the task awaits no pending future
\* (it has not started, or the lock's future has its result), the task is
\* marked; the task stays pending, in the lock's queue and in the set,
\* until the loop runs it again.  Only the runs whose limits say so have
\* an owner that cancels.
CancelRequested(u) ==
  /\ limits.cancels
  /\ pc[u] \in {"created", "lockwait", "creds", "provision", "append"}
  /\ cancelling[u] = "no"
  /\ cancelling' = [cancelling EXCEPT ![u] =
                      IF pc[u] = "created" \/ Woken(u) THEN "task" ELSE "future"]
  /\ UNCHANGED << config, schema, plugin_vars, unit_vars, sd, hookResult,
                  last_event, callerGone, limits, thread >>

\* What becomes of the create_resources call of a cancelled task: the
\* cancelled future cancels the executor's work item, which succeeds only
\* if no worker thread has begun it; a call that has begun goes on, and
\* the result of one that has ended is dropped.
ThreadAfterCancel(t) ==
  IF t = "started" THEN {"started", "none"}
  ELSE IF t \in {"returned", "raised"} THEN {"none"}
  ELSE {t}

\* A delivery that leaves the lock with the cancelled task, as a lock
\* taken by `await lock.acquire()` without try/finally would be.
CancelUnitKeepingLock(u) ==
  /\ pc[u] \in {"created", "lockwait", "creds", "provision", "append"}
  /\ cancelling[u] # "no"
  /\ cancelling' = [cancelling EXCEPT ![u] = "no"]
  /\ pc' = [pc EXCEPT ![u] = "done"]
  /\ outcome' = [outcome EXCEPT ![u] = "cancelled"]
  /\ lock_waiters' = SelectSeq(lock_waiters, LAMBDA w : w # u)
  /\ UNCHANGED lock_holder
  /\ failedAttempts' = failedAttempts + (IF lock_holder = u THEN 1 ELSE 0)
  /\ \E t \in ThreadAfterCancel(thread[u]) :
       thread' = [thread EXCEPT ![u] = t]
  /\ via' = [via EXCEPT ![u] = "none"]
  /\ sent' = [sent EXCEPT ![u] = NoClient]
  /\ batch' = [batch EXCEPT ![u] = NoBatch]
  /\ UNCHANGED << config, schema, write_client, bq_client, init_lock, arrow_schema,
                  clients, background_tasks, row, initRet, sd,
                  hookResult, last_event, callerGone, limits >>

\* The loop runs the task whose cancellation was requested: CancelledError
\* is raised at the await the task is suspended at (in a task that has not
\* started, before its first statement).  It is no Exception, so no except
\* clause of _ensure_init or _perform_write catches it; `async with`
\* releases the lock, a waiter leaves the queue (and wakes the next one if
\* the lock is free), and the task ends.  A create_resources thread the
\* task awaited goes on.
CancelUnit(u) ==
  /\ pc[u] \in {"created", "lockwait", "creds", "provision", "append"}
  /\ cancelling[u] # "no"
  /\ cancelling' = [cancelling EXCEPT ![u] = "no"]
  /\ pc' = [pc EXCEPT ![u] = "done"]
  /\ outcome' = [outcome EXCEPT ![u] = "cancelled"]
  /\ lock_waiters' = SelectSeq(lock_waiters, LAMBDA w : w # u)
  /\ lock_holder' = IF lock_holder = u THEN 0 ELSE lock_holder
  /\ failedAttempts' = failedAttempts + (IF lock_holder = u THEN 1 ELSE 0)
  /\ \E t \in ThreadAfterCancel(thread[u]) :
       thread' = [thread EXCEPT ![u] = t]
  /\ via' = [via EXCEPT ![u] = "none"]
  /\ sent' = [sent EXCEPT ![u] = NoClient]
  /\ batch' = [batch EXCEPT ![u] = NoBatch]
  /\ UNCHANGED << config, schema, write_client, bq_client, init_lock, arrow_schema,
                  clients, background_tasks, row, initRet, sd,
                  hookResult, last_event, callerGone, limits >>

\* A discard that only a task that was not cancelled performs.
DoneCallbackUnlessCancelled(u) ==
  /\ pc[u] = "done"
  /\ outcome[u] # "cancelled"
  /\ u \in background_tasks
  /\ background_tasks' = background_tasks \ {u}
  /\ pc' = [pc EXCEPT ![u] = "gone"]
  /\ row' = [row EXCEPT ![u] = NoneV]
  /\ initRet' = [initRet EXCEPT ![u] = "none"]
  /\ via' = [via EXCEPT ![u] = "none"]
  /\ outcome' = [outcome EXCEPT ![u] = "none"]
  /\ sent' = [sent EXCEPT ![u] = NoClient]
  /\ batch' = [batch EXCEPT ![u] = NoBatch]
  /\ UNCHANGED << config, schema, plugin_vars, sd, hookResult, last_event, callerGone, limits, cancelling, thread >>

\* task.add_done_callback(self._background_tasks.discard): the event loop
\* calls it once the task is done.  The set held the only reference to
\* the task, so the task, its row and its result are gone with it.
DoneCallback(u) ==
  /\ pc[u] = "done"
  /\ u \in background_tasks
  /\ background_tasks' = background_tasks \ {u}
  /\ pc' = [pc EXCEPT ![u] = "gone"]
  /\ row' = [row EXCEPT ![u] = NoneV]
  /\ initRet' = [initRet EXCEPT ![u] = "none"]
  /\ via' = [via EXCEPT ![u] = "none"]
  /\ outcome' = [outcome EXCEPT ![u] = "none"]
  /\ sent' = [sent EXCEPT ![u] = NoClient]
  /\ batch' = [batch EXCEPT ![u] = NoBatch]
  /\ UNCHANGED << config, schema, plugin_vars, sd, hookResult, last_event, callerGone, limits, cancelling, thread >>

\* ---------------------------------------------------------------- shutdown
\* client.close() / client.transport.close() called on a handle.
Closed(cl, h) == [cl EXCEPT ![h].closes = @ + 1]

\* How a close call on the handle h can end: "closed", or it raises; the
\* awaited close of a transport can also outlast the 1.0 s of wait_for
\* ("timeout").  No call is made on None.  The results differ in the
\* logged warning alone; the runs whose limits have no faults do not tell
\* them apart, and their one result stands for each of them.
CloseResults(h) ==
  IF h = NoClient THEN {"none"}
  ELSE IF ~limits.faults THEN {"closed"}
  ELSE IF clients[h].kind = "write" THEN {"closed", "raised", "timeout"}
  ELSE {"closed", "raised"}

\* The logging.warning of an except branch of shutdown().
Warning(call, result) ==
  IF result \in {"raised", "timeout"} THEN {call} ELSE {}

\* A close phase that closes the control-plane client before it awaits
\* the close of the transport.
Phase2ControlPlaneFirst(s, waited, logged) ==
  IF write_client # NoClient
    THEN /\ clients' = IF bq_client # NoClient
                         THEN Closed(Closed(clients, bq_client), write_client)
                         ELSE Closed(clients, write_client)
         /\ bq_client' = NoClient
         /\ sd' = [sd EXCEPT ![s] = [pc |-> "closing", wait |-> waited,
                                     logged |-> logged, closing |-> write_client,
                                     warnings |-> {}]]
         /\ UNCHANGED write_client
    ELSE /\ clients' = IF bq_client # NoClient THEN Closed(clients, bq_client)
                       ELSE clients
         /\ bq_client' = NoClient
         /\ sd' = [sd EXCEPT ![s] = [pc |-> "returned", wait |-> waited,
                                     logged |-> logged, closing |-> NoClient,
                                     warnings |-> {}]]
         /\ UNCHANGED write_client

\* "# 2. Close client" up to its await or, without one, to the return.
\*  - _write_client set: transport.close() is called and awaited under
\*    wait_for;
\*  - else: _bq_client, if set, is closed (a close that raises is logged)
\*    and cleared, and shutdown returns.
Phase2(s, waited, logged) ==
  IF write_client # NoClient
    THEN /\ clients' = Closed(clients, write_client)
         /\ sd' = [sd EXCEPT ![s] = [pc |-> "closing", wait |-> waited,
                                     logged |-> logged, closing |-> write_client,
                                     warnings |-> {}]]
         /\ UNCHANGED << write_client, bq_client >>
    ELSE /\ clients' = IF bq_client # NoClient THEN Closed(clients, bq_client)
                       ELSE clients
         /\ bq_client' = NoClient
         /\ \E bq_result \in CloseResults(bq_client) :
              sd' = [sd EXCEPT ![s] = [pc |-> "returned", wait |-> waited,
                                       logged |-> logged, closing |-> NoClient,
                                       warnings |-> Warning("bq", bq_result)]]
         /\ UNCHANGED write_client

\* shutdown() is called.  With pending tasks it suspends in
\* asyncio.wait(self._background_tasks, timeout=2.0), which copies the set;
\* with none it goes on to the close.  Invocations are numbered in the
\* order they are made.
ShutdownStart(s) ==
  /\ sd[s].pc = "idle"
  /\ s <= limits.shutdowns
  /\ s > 1 => sd[s - 1].pc # "idle"
  /\ IF background_tasks # {}
       THEN /\ sd' = [sd EXCEPT ![s].pc = "flush", ![s].wait = background_tasks]
            /\ UNCHANGED << clients, write_client, bq_client >>
       ELSE Phase2(s, {}, NoLog)
  /\ UNCHANGED << config, schema, init_lock, lock_holder, lock_waiters, arrow_schema,
                  failedAttempts, unit_vars, hookResult, last_event, callerGone, limits, cancelling, thread >>

\* asyncio.wait returns: every task of its set is done, or the 2.0 s have
\* passed (then with tasks pending, whose number is logged); the close
\* follows.  The 2.0 s can end at any moment, also in the loop iteration
\* in which a task has ended and its discard callback has not run yet:
\* the wait then returns with a done task still in _background_tasks.
\* The tasks of the set that are not done: asyncio.wait's `pending`.
Pending(s) == {u \in sd[s].wait : pc[u] \notin {"done", "gone"}}

\* A flush that cancels the tasks still pending when the 2.0 s have
\* passed, as asyncio.wait_for would.
ShutdownFlushDoneCancelling(s) ==
  /\ sd[s].pc = "flush"
  /\ Phase2(s, {},
            IF Pending(s) # {} THEN Cardinality(Pending(s)) ELSE NoLog)
  /\ pc' = [u \in Units |-> IF u \in Pending(s) THEN "done" ELSE pc[u]]
  /\ outcome' = [u \in Units |->
                   IF u \in Pending(s) THEN "cancelled" ELSE outcome[u]]
  /\ lock_waiters' = SelectSeq(lock_waiters, LAMBDA w : w \notin Pending(s))
  /\ lock_holder' = IF lock_holder \in Pending(s) THEN 0 ELSE lock_holder
  /\ UNCHANGED << config, schema, init_lock, arrow_schema, failedAttempts, row,
                  initRet, via, sent, batch, background_tasks, hookResult,
                  last_event, callerGone, limits, cancelling, thread >>

\* A flush without a timeout: it ends when every task of its set is done.
ShutdownFlushDoneWaitingForAll(s) ==
  /\ sd[s].pc = "flush"
  /\ \A u \in sd[s].wait : pc[u] = "gone"
  /\ Phase2(s, {}, NoLog)
  /\ UNCHANGED << config, schema, init_lock, lock_holder, lock_waiters, arrow_schema,
                  failedAttempts, unit_vars, hookResult, last_event, callerGone, limits, cancelling, thread >>

ShutdownFlushDone(s) ==
  /\ sd[s].pc = "flush"
  /\ Phase2(s, {},
            IF Pending(s) # {} THEN Cardinality(Pending(s)) ELSE NoLog)
  /\ UNCHANGED << config, schema, init_lock, lock_holder, lock_waiters, arrow_schema,
                  failedAttempts, unit_vars, hookResult, last_event, callerGone, limits, cancelling, thread >>

\* A shutdown() that closes the transport and keeps the handle.
ShutdownCloseDoneKeepsHandle(s) ==
  /\ sd[s].pc = "closing"
  /\ clients' = IF bq_client # NoClient THEN Closed(clients, bq_client)
                ELSE clients
  /\ bq_client' = NoClient
  /\ sd' = [sd EXCEPT ![s].pc = "returned"]
  /\ UNCHANGED << config, schema, write_client, init_lock, lock_holder, lock_waiters,
                  arrow_schema, failedAttempts, unit_vars, hookResult, last_event,
                  callerGone, limits, cancelling, thread >>

\* A shutdown() without its try/except around the awaited close: the
\* exception of a failed close leaves shutdown() at once.
ShutdownCloseDonePropagating(s) ==
  /\ sd[s].pc = "closing"
  /\ \E result \in CloseResults(sd[s].closing) :
       IF result = "closed"
         THEN /\ write_client' = NoClient
              /\ clients' = IF bq_client # NoClient
                              THEN Closed(clients, bq_client) ELSE clients
              /\ bq_client' = NoClient
              /\ sd' = [sd EXCEPT ![s].pc = "returned"]
         ELSE /\ sd' = [sd EXCEPT ![s].pc = "raised"]
              /\ UNCHANGED << write_client, bq_client, clients >>
  /\ UNCHANGED << config, schema, init_lock, lock_holder, lock_waiters, arrow_schema,
                  failedAttempts, unit_vars, hookResult, last_event, callerGone, limits, cancelling, thread >>

\* The wait_for of transport.close() ends: closed, raised or timed out
\* after 1.0 s (the last two caught and logged); _write_client is
\* cleared, then _bq_client, if set, is closed (a close that raises is
\* caught and logged) and cleared, and shutdown returns.
ShutdownCloseDone(s) ==
  /\ sd[s].pc = "closing"
  /\ write_client' = NoClient
  /\ clients' = IF bq_client # NoClient THEN Closed(clients, bq_client)
                ELSE clients
  /\ bq_client' = NoClient
  /\ \E result \in CloseResults(sd[s].closing),
        bq_result \in CloseResults(bq_client) :
       sd' = [sd EXCEPT ![s].pc = "returned",
                        ![s].warnings = Warning("transport", result)
                                          \cup Warning("bq", bq_result)]
  /\ UNCHANGED << config, schema, init_lock, lock_holder, lock_waiters, arrow_schema,
                  failedAttempts, unit_vars, hookResult, last_event, callerGone, limits, cancelling, thread >>

\* -------------------------------------------------------- the caller
\* A unit that is a child of the caller's scope: it is cancelled with it.
CallerExitCancels(u) ==
  /\ pc[u] # "unborn"
  /\ ~callerGone[u]
  /\ callerGone' = [callerGone EXCEPT ![u] = TRUE]
  /\ IF pc[u] \in {"created", "append"}
       THEN /\ pc' = [pc EXCEPT ![u] = "done"]
            /\ outcome' = [outcome EXCEPT ![u] = "cancelled"]
       ELSE UNCHANGED << pc, outcome >>
  /\ UNCHANGED << config, schema, plugin_vars, row, initRet, via, sent, batch,
                  background_tasks, sd, hookResult, last_event, limits, cancelling, thread >>

\* The scope that awaited the hook (and so _log) for unit u exits or is
\* cancelled.  asyncio.create_task made the unit a task of its own on the
\* event loop: it is neither awaited by nor a child of the caller, so
\* nothing of the unit changes.
CallerExit(u) ==
  /\ pc[u] # "unborn"
  /\ ~callerGone[u]
  /\ callerGone' = [callerGone EXCEPT ![u] = TRUE]
  /\ UNCHANGED << config, schema, plugin_vars, unit_vars, sd, hookResult, last_event, limits, cancelling, thread >>

\* ------------------------------------------------------------ specifications
InitResults == {"ok", "failed"}
AppendResults == {"written", "status_error", "exception"}

\* GenerateContentConfig
GenConfig(si, temperature) ==
  [system_instruction |-> si, temperature |-> temperature, top_p |-> NoneV,
   top_k |-> NoneV, max_output_tokens |-> NoneV]

\* The LlmRequest inputs of before_model_callback.
LlmRequests ==
  { [model |-> NoneV, config |-> None, tools_dict |-> <<>>],
    [model |-> "gemini", config |-> Some(GenConfig(SiNone, NoneV)),
     tools_dict |-> <<>>],
    [model |-> "gemini", config |-> Some(GenConfig(SiStr("be brief"), "0.5")),
     tools_dict |-> << "search", "calc" >>],
    [model |-> "gemini",
     config |-> Some(GenConfig(SiContent(Some(<< "a", NoneV, "b" >>)), NoneV)),
     tools_dict |-> <<>>],
    [model |-> "gemini",
     config |-> Some(GenConfig(SiContent(None), NoneV)),
     tools_dict |-> <<>>],
    [model |-> "gemini", config |-> Some(GenConfig(SiPart(NoneV), NoneV)),
     tools_dict |-> <<>>],
    [model |-> "gemini",
     config |-> Some(GenConfig(SiList(<< SiStr("x"), SiPart("y"), SiPart(NoneV) >>),
                               NoneV)),
     tools_dict |-> <<>>] }

\* The inputs of the agent, model and tool hooks.
Agents == { [name |-> "sub"] }
UsageMetadata(prompt, candidates, total) ==
  [prompt_token_count |-> prompt, candidates_token_count |-> candidates,
   total_token_count |-> total]
LlmResponse(content, usage_metadata, error_message) ==
  [content |-> content, usage_metadata |-> usage_metadata,
   error_message |-> error_message]
LlmResponses ==
  { LlmResponse(None, None, "quota"),
    LlmResponse(Some(<< Part("ok", NoneV, NoneV) >>), None, NoneV),
    LlmResponse(Some(<< Part(NoneV, "search", NoneV),
                        Part("and", "calc", NoneV) >>),
                Some(UsageMetadata("3", "4", "7")), NoneV),
    LlmResponse(Some(<< Part("ok", NoneV, NoneV) >>),
                Some(UsageMetadata("3", NoneV, Missing)), NoneV),
    LlmResponse(Some(<< Part(NoneV, Unnamed, NoneV) >>), None, NoneV) }
Tools == { [name |-> "search", description |-> "finds"] }
RECURSIVE Repeat(_, _)
Repeat(text, n) ==
  IF n = 0 THEN ""
  ELSE LET half == Repeat(text, n \div 2)
       IN half \o half \o (IF n % 2 = 1 THEN text ELSE "")
ToolArgs ==
  { None, Some(<< >>), Some(<< << "q", ArgStr("x") >> >>),
    Some(<< << "q", ArgStr("x") >>, << "n", ArgObj("{1}") >> >>),
    Some(<< << "q", ArgStr(Repeat("x", MaxArgsLen)) >> >>) }

\* The steps of the background units.
UnitStep ==
  \/ \E u \in Units : Start(u)
  \/ \E u \in Units : LockAcquired(u)
  \/ \E u \in Units, res \in InitResults : CredsDone(u, res)
  \/ \E u \in Units : ThreadCheck(u)
  \/ \E u \in Units : ThreadCreateDataset(u)
  \/ \E u \in Units, res \in InitResults : ThreadCreateTable(u, res)
  \/ \E u \in Units, res \in InitResults : ProvisionDone(u, res)
  \/ \E u \in Units, res \in AppendResults : AppendDone(u, res)
  \/ \E u \in Units : DoneCallback(u)

\* The steps of tasks whose remote calls, when they end, succeed.
UnitStepOK ==
  \/ \E u \in Units : Start(u)
  \/ \E u \in Units : LockAcquired(u)
  \/ \E u \in Units : CredsDone(u, "ok")
  \/ \E u \in Units : ThreadCheck(u)
  \/ \E u \in Units : ThreadCreateDataset(u)
  \/ \E u \in Units : ThreadCreateTable(u, "ok")
  \/ \E u \in Units : ProvisionDone(u, "ok")
  \/ \E u \in Units : AppendDone(u, "written")
  \/ \E u \in Units : DoneCallback(u)

Cancellation ==
  \/ \E u \in Units : CancelRequested(u)
  \/ \E u \in Units : CancelUnit(u)
  \/ \E u \in Units : ThreadEnd(u)

ShutdownStep ==
  \/ \E s \in Shutdowns : ShutdownStart(s)
  \/ \E s \in Shutdowns : ShutdownFlushDone(s)
  \/ \E s \in Shutdowns : ShutdownCloseDone(s)

\* The full model: events, units, task cancellation and shutdown() calls.
Next ==
  \/ on_model_error_callback("timeout")
  \/ UnitStep
  \/ Cancellation
  \/ ShutdownStep

Spec == Init /\ [][Next]_vars

\* Runs in which shutdown() is not called: runs of InitUnits tasks in
\* which no task is cancelled, and runs of CancelUnits tasks in which the
\* owner of the loop cancels tasks.
InitInit ==
  /\ InitPlugin
  /\ limits \in {[units |-> InitUnits, shutdowns |-> 0, faults |-> FALSE,
                   cancels |-> FALSE],
                  [units |-> CancelUnits, shutdowns |-> 0, faults |-> FALSE,
                   cancels |-> TRUE]}
NextInit ==
  \/ on_model_error_callback("timeout")
  \/ UnitStep
  \/ Cancellation
SpecInit == InitInit /\ [][NextInit]_vars

\* Runs of the same kinds on an event loop that keeps running: a callback
\* it has scheduled with call_soon is eventually called.
InitFair ==
  /\ InitPlugin
  /\ limits \in {[units |-> FairUnits, shutdowns |-> 0, faults |-> FALSE,
                   cancels |-> FALSE],
                  [units |-> FairCancelUnits, shutdowns |-> 0,
                   faults |-> FALSE, cancels |-> TRUE]}
SpecFair ==
  /\ InitFair
  /\ [][NextInit]_vars
  /\ \A u \in Units : WF_vars(DoneCallback(u))

\* Runs in which the scopes that called the hooks exit or are cancelled,
\* and nobody else cancels a task.
InitScope == InitPlugin /\ limits = [units |-> ScopeUnits, shutdowns |-> 0,
            faults |-> FALSE, cancels |-> FALSE]
NextScope ==
  \/ on_model_error_callback("timeout")
  \/ UnitStep
  \/ \E u \in Units : CallerExit(u)
SpecScope == InitScope /\ [][NextScope]_vars

\* Runs with shutdown() calls in which no task is cancelled and the
\* remote calls of the tasks, when they end, succeed.
InitLife ==
  InitPlugin /\ limits = [units |-> LifeUnits, shutdowns |-> LifeShutdowns,
            faults |-> FALSE, cancels |-> FALSE]
NextLife ==
  \/ on_model_error_callback("timeout")
  \/ UnitStepOK
  \/ ShutdownStep
SpecLife == InitLife /\ [][NextLife]_vars

\* Runs over the inputs of the lifecycle hooks; the remote calls of the
\* tasks, when they end, succeed.
InitHooks == InitPlugin /\ limits = [units |-> HookUnits, shutdowns |-> 0,
            faults |-> FALSE, cancels |-> FALSE]
NextHooks ==
  \/ on_model_error_callback("timeout")
  \/ \E r \in LlmRequests : before_model_callback(r)
  \/ \E r \in LlmResponses : after_model_callback(r)
  \/ \E a \in Agents : before_agent_callback(a)
  \/ \E a \in Agents : after_agent_callback(a)
  \/ \E t \in Tools, a \in ToolArgs : before_tool_callback(t, a)
  \/ \E t \in Tools, r \in ToolArgs : after_tool_callback(t, r)
  \/ \E t \in Tools, a \in ToolArgs : on_tool_error_callback(t, a, "boom")
  \/ UnitStepOK
SpecHooks == InitHooks /\ [][NextHooks]_vars

\* Runs over the configurations of the event filter.
FilterLists ==
  { None, Some(<<>>), Some(<< "LLM_ERROR" >>),
    Some(<< "INVOCATION_STARTING", "LLM_ERROR" >>) }
FilterConfigs ==
  { [enabled |-> e, event_allowlist |-> a, event_denylist |-> d,
     content_formatter |-> NoneV] :
      e \in BOOLEAN, a \in FilterLists, d \in FilterLists }
InitFilter ==
  /\ config \in FilterConfigs
  /\ schema = PluginSchema
  /\ InitFields
  /\ limits = [units |-> FilterUnits, shutdowns |-> 0,
            faults |-> FALSE, cancels |-> FALSE]
NextFilter ==
  \/ on_model_error_callback("timeout")
  \/ before_run_callback
  \/ after_run_callback
  \/ UnitStep
SpecFilter == InitFilter /\ [][NextFilter]_vars

\* Runs over schema descriptors: self._schema is a list of up to
\* MaxSchemaLen of these fields, or the fixed schema.
MapperLeaves ==
  { SchemaField("a_string", "STRING"),
    SchemaField("a_lower", "string"),
    SchemaField("a_json", "JSON"),
    SchemaField("a_unknown", "FOO"),
    SchemaField("a_notype", NoneV),
    SchemaFieldOf("a_ints", "INT64", "REPEATED", <<>>, NoneV),
    SchemaFieldOf("a_unknowns", "FOO", "REPEATED", <<>>, NoneV),
    SchemaFieldOf("a_range", "RANGE", "NULLABLE", <<>>, "DATE"),
    SchemaFieldOf("a_range_lower", "range", "NULLABLE", <<>>, "DATE"),
    SchemaFieldOf("a_range_none", "RANGE", "NULLABLE", <<>>, NoneV),
    SchemaFieldOf("a_range_unknown", "RANGE", "NULLABLE", <<>>, "FOO"),
    SchemaFieldOf("a_ranges", "RANGE", "REPEATED", <<>>, "TIMESTAMP"),
    SchemaFieldOf("a_ranges_unknown", "RANGE", "REPEATED", <<>>, "FOO") }

Record(name, mode, fields) == SchemaFieldOf(name, "RECORD", mode, fields, NoneV)

MapperRecords ==
  { Record("r_empty", "NULLABLE", <<>>),
    Record("r_one", "NULLABLE", << SchemaField("x", "STRING") >>),
    Record("r_two", "NULLABLE",
           << SchemaField("y", "TIMESTAMP"),
              SchemaFieldOf("x", "INT64", "REPEATED", <<>>, NoneV) >>),
    Record("r_bad_last", "NULLABLE",
           << SchemaField("x", "STRING"), SchemaField("y", "FOO") >>),
    Record("r_bad_then_raise", "NULLABLE",
           << SchemaField("y", "FOO"),
              SchemaFieldOf("z", "RANGE", "NULLABLE", <<>>, NoneV) >>),
    Record("r_raise_then_bad", "NULLABLE",
           << SchemaFieldOf("z", "RANGE", "NULLABLE", <<>>, NoneV),
              SchemaField("y", "FOO") >>),
    Record("r_nested", "NULLABLE",
           << Record("in", "NULLABLE", << SchemaField("x", "DATE") >>) >>),
    Record("r_nested_empty", "NULLABLE",
           << SchemaField("x", "STRING"), Record("in", "NULLABLE", <<>>) >>),
    SchemaFieldOf("r_struct", "STRUCT", "NULLABLE",
                  << SchemaField("x", "STRING") >>, NoneV),
    Record("r_many", "REPEATED", << SchemaField("x", "STRING") >>),
    Record("r_many_empty", "REPEATED", <<>>) }

MapperFields == MapperLeaves \cup MapperRecords

RECURSIVE SchemasUpTo(_)
SchemasUpTo(n) ==
  IF n = 0 THEN { <<>> }
  ELSE LET shorter == SchemasUpTo(n - 1) IN
       shorter \cup { Append(l, f) : l \in shorter, f \in MapperFields }

MapperSchemas == SchemasUpTo(MaxSchemaLen) \cup { PluginSchema }

InitMapper ==
  /\ config = DefaultConfig
  /\ schema \in MapperSchemas
  /\ InitFields
  /\ limits = [units |-> MapperUnits, shutdowns |-> 0,
            faults |-> FALSE, cancels |-> FALSE]
NextMapper ==
  \/ on_model_error_callback("timeout")
  \/ UnitStep
SpecMapper == InitMapper /\ [][NextMapper]_vars

\* Runs over the data _log is given: by on_event_callback for the events
\* of Events, and by a direct call with the dictionaries of LogInputs,
\* some of which lack keys of the row.  The remote calls of the tasks
\* succeed.
Events ==
  { Event("user", Some(<< Part("hi", NoneV, NoneV) >>), NoneV, "1700000000.5"),
    Event("agent", Some(<< Part(NoneV, "search", NoneV) >>), NoneV,
          "1700000001.0"),
    Event("agent", None, "quota", "1700000002.0"),
    Event("agent", Some(<< >>), NoneV, "1700000003.0") }

LogInputs ==
  { [k \in {} |-> NoneV],
    [agent |-> "agent"],
    [event_type |-> "CUSTOM"],
    [event_type |-> "CUSTOM", timestamp |-> "utc:1600000000.0"],
    [event_type |-> "CUSTOM", extra |-> "x"] }

InitRows == InitPlugin /\ limits = [units |-> RowUnits, shutdowns |-> 0,
            faults |-> FALSE, cancels |-> FALSE]
NextRows ==
  \/ \E event \in Events : on_event_callback(event)
  \/ \E data \in LogInputs : log_call(data)
  \/ UnitStepOK
SpecRows == InitRows /\ [][NextRows]_vars

\* Runs in which self._schema is the fixed schema, an empty list, a list
\* with a field of an unknown type (to_arrow_schema returns None) or a
\* list with a RANGE field without element type (to_arrow_schema raises).
SkipSchemas ==
  { PluginSchema,
    << >>,
    << SchemaField("a_string", "STRING"), SchemaField("a_unknown", "FOO") >>,
    << SchemaFieldOf("a_range_none", "RANGE", "NULLABLE", <<>>, NoneV) >> }

InitSkip ==
  /\ config = DefaultConfig
  /\ schema \in SkipSchemas
  /\ InitFields
  /\ limits = [units |-> SkipUnits, shutdowns |-> 0,
            faults |-> FALSE, cancels |-> FALSE]
NextSkip ==
  \/ on_model_error_callback("timeout")
  \/ UnitStep
SpecSkip == InitSkip /\ [][NextSkip]_vars

NextClose ==
  \/ on_model_error_callback("timeout")
  \/ UnitStepOK
  \/ ShutdownStep

\* Runs with shutdown() calls whose close() calls can fail: the transport
\* close raises or outlasts wait_for, the BigQuery client's close raises.
\* The runs that tell these results apart have FaultUnits tasks, the
\* others CloseUnits.
InitClose ==
  /\ InitPlugin
  /\ limits \in {[units |-> FaultUnits, shutdowns |-> CloseShutdowns,
                   faults |-> TRUE, cancels |-> FALSE],
                  [units |-> CloseUnits, shutdowns |-> CloseShutdowns,
                   faults |-> FALSE, cancels |-> FALSE]}
SpecClose == InitClose /\ [][NextClose]_vars

\* Runs on an event loop that keeps running: the timers of asyncio.wait
\* and wait_for fire.  Nothing is assumed of the tasks: each may stay
\* suspended at any await for ever.  The runs with shutdown() calls have
\* FaultUnits tasks, the others CloseUnits; the results of the close
\* calls are not told apart here.
InitCloseFair ==
  /\ InitPlugin
  /\ limits \in {[units |-> FaultUnits, shutdowns |-> CloseShutdowns,
                   faults |-> FALSE, cancels |-> FALSE],
                  [units |-> CloseUnits, shutdowns |-> 0, faults |-> FALSE,
                   cancels |-> FALSE]}
SpecCloseFair ==
  /\ InitCloseFair
  /\ [][NextClose]_vars
  /\ \A s \in Shutdowns : WF_vars(ShutdownFlushDone(s))
  /\ \A s \in Shutdowns : WF_vars(ShutdownCloseDone(s))

\* Runs in which self._schema is the fixed schema __init__ assigns, or a
\* list of one field without subfields given to the conversion in its
\* place: a scalar, a REPEATED field or a RANGE field.
LeafSchemas == { << f >> : f \in MapperLeaves } \cup { PluginSchema }

InitLeaf ==
  /\ config = DefaultConfig
  /\ schema \in LeafSchemas
  /\ InitFields
  /\ limits = [units |-> SkipUnits, shutdowns |-> 0, faults |-> FALSE, cancels |-> FALSE]
SpecLeaf == InitLeaf /\ [][NextSkip]_vars

\* Runs over the content formatters of the configuration and the user
\* messages on_user_message_callback is given.  The remote calls of the
\* tasks succeed.
Formatters == { NoneV, "returns", "raises", "strict" }
UserMessages ==
  { None, Some(<< >>), Some(<< Part("hi", NoneV, NoneV) >>),
    Some(<< Part(NoneV, "search", NoneV), Part(NoneV, NoneV, "search") >>),
    Some(<< Part("", NoneV, NoneV) >>) }
InitFormat ==
  /\ config \in { [DefaultConfig EXCEPT !.content_formatter = f] :
                    f \in Formatters }
  /\ schema = PluginSchema
  /\ InitFields
  /\ limits = [units |-> RowUnits, shutdowns |-> 0, faults |-> FALSE, cancels |-> FALSE]
NextFormat ==
  \/ \E m \in UserMessages : on_user_message_callback(m)
  \/ UnitStepOK
SpecFormat == InitFormat /\ [][NextFormat]_vars

\* Runs over the events on_event_callback classifies: every author,
\* content and error message of the sets below, so that an event can
\* match several rules of _get_event_type at once.  The tasks are made
\* and do not run.
ClassifyContents ==
  { None, Some(<< >>), Some(<< Part("hi", NoneV, NoneV) >>),
    Some(<< Part(NoneV, "search", NoneV) >>),
    Some(<< Part(NoneV, NoneV, "search") >>),
    Some(<< Part(NoneV, NoneV, "search"), Part(NoneV, "search", NoneV) >>) }
ClassifyEvents ==
  { Event(author, content, error_message, "1700000000.0") :
      author \in {"user", "agent"}, content \in ClassifyContents,
      error_message \in {NoneV, "", "quota"} }
InitClassify == InitPlugin /\ limits = [units |-> ClassifyUnits,
                shutdowns |-> 0, faults |-> FALSE, cancels |-> FALSE]
NextClassify == \E event \in ClassifyEvents : on_event_callback(event)
SpecClassify == InitClassify /\ [][NextClassify]_vars

\* Runs of GateUnits tasks, any of which the owner of the loop may
\* cancel, on an event loop that keeps running and with
\* remote steps that end: a task woken by the release of the lock runs,
\* a task whose cancellation was requested is run and ends, the awaited
\* credentials call returns or raises, and so does the awaited
\* create_resources call (its thread runs, and the task is resumed).  A
\* task leaves "provision" by its resumption or by the delivery of a
\* cancellation alone, so the last condition says that these happen.
InitGate ==
  InitPlugin /\ limits = [units |-> GateUnits, shutdowns |-> 0,
                          faults |-> FALSE, cancels |-> TRUE]
SpecGate ==
  /\ InitGate
  /\ [][NextInit]_vars
  /\ \A u \in 1..GateUnits : WF_vars(LockAcquired(u))
  /\ \A u \in 1..GateUnits : WF_vars(CancelUnit(u))
  /\ \A u \in 1..GateUnits :
       WF_vars(\E res \in InitResults : CredsDone(u, res))
  /\ \A u \in 1..GateUnits : []<>(pc[u] # "provision")

\* ------------------------------------------------------------------ claims
\* C1: of the callers of _ensure_init that are concurrent, one runs the
\* initialization attempt; a caller that queued behind the gate runs no
\* attempt of its own: when the gate is its, it returns with the state
\* the holder before it left and does not go on to ask for credentials,
\* to construct a client and to provision.  (Only an attempt constructs
\* clients and provisions, so this is what keeps them at one each.)
C1_QueuedCallersRunNoAttempt ==
  [][ \A u \in Units : pc[u] = "lockwait" => pc'[u] # "creds" ]_vars

\* C2: in every connection state in which the run may still make a task,
\* a hook's call of _log can take its step: it returns without waiting
\* for credentials, provisioning, the gate or a write.
C2_LogNeverWaits ==
  NextUnit <= limits.units => ENABLED on_model_error_callback("timeout")

\* _log has returned with a new task while another unit holds the gate,
\* an earlier attempt has failed and there is no write client.
C2_Witness ==
  /\ hookResult = "returned"
  /\ \E u \in Units : pc[u] = "created"
  /\ lock_holder # 0
  /\ failedAttempts > 0
  /\ write_client = NoClient

\* C3: a unit that has completed, with whatever outcome, is removed from
\* the set of background tasks.
C3_CompletedUnitsLeave ==
  \A u \in Units : (pc[u] = "done") ~> (u \notin background_tasks)

\* Every unit has completed and left the set, after a failed or cancelled
\* attempt and a successful initialization.
C3_Witness ==
  /\ \A u \in 1..limits.units : pc[u] = "gone"
  /\ background_tasks = {}
  /\ failedAttempts > 0
  /\ write_client # NoClient

\* The shutdown() invocation s returns in this step.
Returns(s) == sd[s].pc # "returned" /\ sd'[s].pc = "returned"
\* _ensure_init of unit u returns True / False in this step.
ReturnsTrue(u) == initRet[u] = "none" /\ initRet'[u] = "true"
ReturnsFalse(u) == initRet[u] = "none" /\ initRet'[u] = "false"

\* C4, as stated: when a shutdown() call returns, the set of background
\* tasks is empty or the call has logged a residual count equal to the
\* number of units in the set.
C4_ResidualCountLogged ==
  [][\A s \in Shutdowns :
       Returns(s) =>
         \/ background_tasks' = {}
         \/ sd'[s].logged = Cardinality(background_tasks')]_vars

\* C5: an _ensure_init call that returns False leaves the gate free and
\* the plugin without write client, and a call made while there is no
\* write client starts an attempt at the credentials step as soon as it
\* has the gate (at once, when the gate is free and no live waiter is
\* queued).
C5_FailedAttemptCanBeRetried ==
  [][\A u \in Units :
       /\ ReturnsFalse(u) => (lock_holder' = 0 /\ write_client' = NoClient)
       /\ (pc[u] = "created" /\ pc'[u] \notin {"created", "done"}
           /\ write_client = NoClient /\ CanTakeLock)
            => (pc'[u] = "creds" /\ lock_holder' = u)
       /\ (pc[u] = "lockwait" /\ pc'[u] \notin {"lockwait", "done"}
           /\ write_client = NoClient)
            => (pc'[u] = "creds" /\ lock_holder' = u)]_vars

\* One call has returned False and a later one has run a whole
\* initialization: the plugin is Ready.
C5_Witness ==
  \E u, v \in Units :
    /\ initRet[u] = "false"
    /\ via[v] = "initialized"
    /\ write_client # NoClient /\ bq_client # NoClient
    /\ SchemaTruthy(arrow_schema)

\* C6, as stated: _ensure_init returns True only in a state in which the
\* write client, the control-plane client and the Arrow schema are all
\* present.
C6_TrueOnlyWhenAllPresent ==
  [][\A u \in Units :
       ReturnsTrue(u) =>
         /\ write_client' # NoClient
         /\ bq_client' # NoClient
         /\ SchemaTruthy(arrow_schema')]_vars

\* Some shutdown() invocation is between its call and its return.
ShutdownRunning == \E s \in Shutdowns : sd[s].pc \in {"flush", "closing"}

\* C7: when shutdown() returns both client handles are None; an
\* _ensure_init call made while the write client is None does not return
\* at its first check but goes to the gate; and outside a running
\* shutdown() no call returns True on a client whose close was called.
C7_ShutdownClearsHandles ==
  [][/\ \A s \in Shutdowns :
          Returns(s) => (write_client' = NoClient /\ bq_client' = NoClient)
     /\ \A u \in Units :
          /\ (pc[u] = "created" /\ pc'[u] # "created"
              /\ write_client = NoClient)
               => (initRet'[u] = "none" /\ pc'[u] \in {"creds", "lockwait"})
          /\ (ReturnsTrue(u) /\ ~ShutdownRunning)
               => (write_client' # NoClient
                   /\ clients'[write_client'].closes = 0)]_vars

\* After a shutdown() that closed both clients has returned, a unit has
\* run a whole initialization and holds a write client made after it.
C7_Witness ==
  \E s \in Shutdowns, u \in Units :
    /\ sd[s].pc = "returned"
    /\ \E c \in DOMAIN clients :
         clients[c].kind = "write" /\ clients[c].closes = 1
    /\ \E c \in DOMAIN clients :
         clients[c].kind = "bq" /\ clients[c].closes = 1
    /\ via[u] = "initialized"
    /\ sent[u] = write_client
    /\ clients[write_client].closes = 0

\* C8, as stated: a shutdown() called when an earlier one has returned
\* and left both handles None closes nothing and changes no state of the
\* plugin, and no client's close is called more than once, also when
\* invocations overlap.
C8_ShutdownIdempotent ==
  [][/\ \A c \in DOMAIN clients' : clients'[c].closes <= 1
     /\ \A s \in Shutdowns :
          (/\ \E t \in Shutdowns : sd[t].pc = "returned"
           /\ sd[s].pc = "idle" /\ sd'[s].pc # "idle"
           /\ write_client = NoClient /\ bq_client = NoClient)
            => UNCHANGED plugin_vars]_vars

\* C9: the exit or cancellation of the scope that called _log changes
\* nothing of the unit it spawned, and no unit ends cancelled.
C9_CallerExitLeavesUnit ==
  [][\A u \in Units :
       /\ (~callerGone[u] /\ callerGone'[u]) =>
            UNCHANGED << pc, initRet, outcome, sent, batch, background_tasks >>
       /\ outcome'[u] # "cancelled"]_vars

\* A unit whose caller was gone while its write was in flight has
\* completed the write.
C9_Witness ==
  \E u \in Units :
    callerGone[u] /\ pc[u] = "done" /\ outcome[u] = "written"

\* C10, as stated: no lifecycle hook invocation raises to the host
\* runtime.
C10_HooksNeverRaise == hookResult # "raised"

\* C11: a unit calls append_rows at most once, as the first thing after
\* its _ensure_init; when the call ends, with whatever result, the task
\* ends in the same step and no task is made for the row; a task that
\* has ended does not run again.
C11_RowSentAtMostOnce ==
  [][\A u \in Units :
       /\ (pc'[u] = "append" /\ pc[u] # "append") =>
            (/\ pc[u] \in {"created", "lockwait", "provision"}
             /\ sent[u] = NoClient /\ sent'[u] # NoClient)
       /\ (pc[u] = "append" /\ pc'[u] # "append") =>
            (/\ pc'[u] = "done"
             /\ \A v \in Units : pc[v] = "unborn" => pc'[v] = "unborn"
             /\ background_tasks' = background_tasks)
       /\ pc[u] = "done" => pc'[u] \in {"done", "gone"}
       /\ pc[u] = "gone" => pc'[u] = "gone"]_vars

\* One unit's write ended with a non-zero status and another's with an
\* exception of the transport; both tasks have ended and the third task
\* the run may make has not been made.
C11_Witness ==
  \E u, v \in Units :
    /\ pc[u] = "done" /\ outcome[u] = "status_error"
    /\ pc[v] = "done" /\ outcome[v] = "exception"
    /\ \E w \in 1..limits.units : pc[w] = "unborn"

\* The unit u is made in this step.
Spawned(u) == pc[u] = "unborn" /\ pc'[u] # "unborn"
\* The event type is in a deny-list that is set and has entries.
Denied(event_type) ==
  /\ ListTruthy(config.event_denylist)
  /\ InList(event_type, config.event_denylist)
\* No task has been made and no part of the initialization has run.
Untouched ==
  /\ \A u \in Units : pc[u] = "unborn"
  /\ background_tasks = {}
  /\ write_client = NoClient /\ bq_client = NoClient
  /\ ~init_lock /\ lock_holder = 0 /\ clients = <<>>

\* C12: no task is made for an event type of the deny-list, whatever the
\* allow-list holds, and a _log call for such a type changes nothing of
\* the tasks or the plugin.
C12_DenyOverridesAllow ==
  [][/\ \A u \in Units : Spawned(u) => ~Denied(row'[u].event_type)
     /\ (last_event' # last_event /\ Denied(last_event'))
          => UNCHANGED << unit_vars, plugin_vars >>]_vars

\* _log has been called for an event type that is in both lists, and no
\* task has been made.
C12_Witness ==
  /\ hookResult = "returned"
  /\ last_event = "LLM_ERROR"
  /\ ListTruthy(config.event_allowlist)
  /\ InList("LLM_ERROR", config.event_allowlist)
  /\ Denied("LLM_ERROR")
  /\ config.enabled
  /\ Untouched

\* C13, as stated: when the allow-list of the configuration is set (not
\* None), a task is made only for an event type the list holds; a list
\* without entries passes nothing.
C13_AllowListPresentRestricts ==
  [][\A u \in Units :
       (Spawned(u) /\ ~config.event_allowlist.none)
         => InList(row'[u].event_type, config.event_allowlist)]_vars

\* C14: a task is made only for an event the enabled filter accepts;
\* a _log call for another event changes nothing of the tasks or the
\* plugin; and while no task has been made nothing of the initialization
\* has run.
C14_RejectedLogIsNoOp ==
  [][/\ \A u \in Units :
          Spawned(u) => (config.enabled /\ Accept(row'[u].event_type))
     /\ (last_event' # last_event /\ ~Accept(last_event'))
          => UNCHANGED << unit_vars, plugin_vars >>
     /\ (\A u \in Units : pc'[u] = "unborn") => Untouched']_vars

\* _log has been called, by an enabled plugin, for an event type its
\* filter rejects; there is no task and no initialization has started.
C14_Witness ==
  /\ hookResult = "returned"
  /\ last_event = "INVOCATION_COMPLETED"
  /\ config.enabled
  /\ ~Accept("INVOCATION_COMPLETED")
  /\ Untouched

\* C15: a _log call for an accepted event makes exactly one task, in its
\* first state, with the merged row of that event, and the task is in the
\* set of background tasks in the same step; no other row changes; and a
\* task that has not been discarded is in the set.
C15_OneTrackedUnitPerLog ==
  [][/\ \A u \in Units :
          Spawned(u) =>
            /\ pc'[u] = "created"
            /\ background_tasks' = background_tasks \cup {u}
            /\ u \notin background_tasks
            /\ row'[u].event_type = last_event'
            /\ \A v \in Units \ {u} : pc'[v] = pc[v] /\ row'[v] = row[v]
     /\ (last_event' # last_event /\ Accept(last_event'))
          => Cardinality({u \in Units : Spawned(u)}) = 1
     /\ \A u \in Units :
          pc'[u] \notin {"unborn", "gone"} => u \in background_tasks']_vars

\* _log has returned for an event that a set allow-list holds: its task
\* exists, has not started and is in the set.
C15_Witness ==
  \E u \in Units :
    /\ hookResult = "returned"
    /\ pc[u] = "created"
    /\ background_tasks = {u}
    /\ row[u].event_type = last_event
    /\ ListTruthy(config.event_allowlist)
    /\ InList(last_event, config.event_allowlist)

\* C16: the close of a control-plane client is called only in the step
\* in which a shutdown() run leaves its wait for the transport close it
\* started earlier, or in a run that found no write client; so in a run
\* in which both clients exist the transport close comes first and has
\* ended.
C16_DataPlaneClosedFirst ==
  [][\A b \in DOMAIN clients :
       (clients[b].kind = "bq" /\ clients'[b].closes > clients[b].closes) =>
         \/ \E s \in Shutdowns :
              /\ sd[s].pc = "closing" /\ sd'[s].pc = "returned"
              /\ clients[sd[s].closing].kind = "write"
              /\ clients[sd[s].closing].closes >= 1
         \/ write_client = NoClient]_vars

\* A shutdown() run that found both clients has called the close of the
\* transport and waits for it; the control-plane client is not closed.
C16_Witness ==
  \E s \in Shutdowns :
    /\ sd[s].pc = "closing"
    /\ sd[s].closing = write_client
    /\ clients[write_client].closes = 1
    /\ bq_client # NoClient
    /\ clients[bq_client].closes = 0

\* The conversions of the items of a list of SchemaFields, one by one.
FieldResults(fields) ==
  [i \in 1..Len(fields) |-> bq_to_arrow_field(fields[i])]

\* C17, as stated: for every list of SchemaFields, to_arrow_schema returns
\* a schema with at most as many fields as the list, or None; it does
\* not raise.
C17_ResolveNeverRaises ==
  LET r == to_arrow_schema(schema) IN
  /\ r.k \in {"schema", "absent"}
  /\ r.k = "schema" => Len(r.fields) <= Len(schema)

\* The field is a STRUCT/RECORD field that is not REPEATED.
IsStruct(f) ==
  /\ f.mode # "REPEATED"
  /\ f.field_type # NoneV
  /\ Upper(f.field_type) \in STRUCT_TYPES

\* C18, as stated: a Struct field converts to None exactly if one of its
\* subfields converts to None; when every subfield converts (also when
\* there is none) the field has the struct type of the converted
\* subfields in declared order.
C18_StructAbsentIffChildAbsent ==
  \A i \in 1..Len(schema) :
    IsStruct(schema[i]) =>
      LET r == bq_to_arrow_field(schema[i])
          kids == FieldResults(schema[i].fields)
      IN /\ (r.k = "absent") <=> (\E j \in 1..Len(kids) : kids[j].k = "absent")
         /\ (\A j \in 1..Len(kids) : kids[j].k = "field")
              => (/\ r.k = "field"
                  /\ r.type = [k |-> "struct", fields |-> kids])

\* C19, as stated: to_arrow_schema returns None exactly if one of the
\* top-level fields does not convert to a field; otherwise it returns a
\* schema with the converted field of every item, in the order and with
\* the names of the list.
C19_SchemaAllOrNothing ==
  LET r == to_arrow_schema(schema)
      fs == FieldResults(schema)
  IN /\ (r.k = "absent") <=> (\E i \in 1..Len(fs) : fs[i].k # "field")
     /\ r.k # "absent" =>
          (/\ r.k = "schema"
           /\ r.fields = fs
           /\ \A i \in 1..Len(fs) : r.fields[i].name = schema[i].name)

\* The fields of the fixed schema that the specification has non-nullable.
RequiredFields == {"timestamp", "event_type"}

\* C20, as stated: once the plugin is initialized, the cached Arrow
\* schema of the fixed schema has the 8 fields in their order, nullable
\* except timestamp and event_type.
C20_FixedSchemaNullability ==
  (write_client # NoClient /\ schema = PluginSchema) =>
    /\ arrow_schema.k = "schema"
    /\ [i \in 1..Len(arrow_schema.fields) |-> arrow_schema.fields[i].name]
         = << "timestamp", "event_type", "agent", "session_id",
              "invocation_id", "user_id", "content", "error_message" >>
    /\ \A i \in 1..Len(arrow_schema.fields) :
         arrow_schema.fields[i].nullable
           = (arrow_schema.fields[i].name \notin RequiredFields)

\* C21, as stated: no append_rows call is made for a row whose event_type
\* is absent (None), while a row that lacks any other field is sent.
C21_NoWriteWithoutEventType ==
  \A u \in Units :
    pc[u] = "append" => RowGet(row[u], "event_type") # NoneV

\* The append_rows call is made in this step.
Appends(u) == pc[u] # "append" /\ pc'[u] = "append"

\* The names of the fixed schema's fields, in order.
SchemaNames == [i \in 1..Len(PluginSchema) |-> PluginSchema[i].name]

\* C22: with the default configuration, on_model_error_callback for the
\* error "timeout" makes exactly one task, tracked in the set, whose row
\* has event_type LLM_ERROR, error_message "timeout" and a null content;
\* the task calls append_rows at most once, on the write client, with a
\* batch of the 8 columns of the schema in order, each holding the row's
\* one value.
C22_ModelErrorEndToEnd ==
  [][/\ Cardinality({u \in Units : Spawned(u)}) <= 1
     /\ \A u \in Units :
          Spawned(u) =>
            /\ row'[u].event_type = "LLM_ERROR"
            /\ row'[u].error_message = "timeout"
            /\ row'[u].content = NoneV
            /\ background_tasks' = background_tasks \cup {u}
     /\ \A u \in Units :
          Appends(u) =>
            /\ sent'[u] = write_client' /\ sent'[u] # NoClient
            /\ Len(batch'[u]) = 8
            /\ \A i \in 1..8 :
                 /\ batch'[u][i].name = SchemaNames[i]
                 /\ batch'[u][i].values = << row[u][SchemaNames[i]] >>
     /\ \A u \in Units :
          (pc[u] \in {"append", "done", "gone"}) => ~Appends(u)]_vars

C22_Witness ==
  \E u \in Units :
    /\ pc[u] = "append"
    /\ row[u].error_message = "timeout"
    /\ Len(batch[u]) = 8
    /\ batch[u][7] = [name |-> "content", values |-> << NoneV >>]
    /\ batch[u][8] = [name |-> "error_message", values |-> << "timeout" >>]

\* The caller is inside the initialization steps of _ensure_init: the
\* credentials thread, or the provisioning thread (entered after the
\* clients were made, followed by the schema conversion).
InInitSteps(u) == pc[u] \in {"creds", "provision"}

\* C23: at most one caller is inside the initialization steps, and it is
\* the holder of the one lock, however the callers of _ensure_init
\* interleave and whether or not the lock existed when they arrived.
C23_OneCallerInitializes ==
  /\ Cardinality({u \in Units : InInitSteps(u)}) <= 1
  /\ \A u \in Units : InInitSteps(u) => (init_lock /\ lock_holder = u)
  /\ \A i \in 1..Len(lock_waiters) : pc[lock_waiters[i]] = "lockwait"

\* After a failed attempt a second caller initializes while another, which
\* arrived before the lock was free, waits.
C23_Witness ==
  /\ \E u \in Units : InInitSteps(u) /\ failedAttempts > 0
  /\ Len(lock_waiters) >= 1

\* The caller passes _ensure_init's first statement in this step.
Enters(u) == pc[u] = "created" /\ pc'[u] # "created" /\ outcome'[u] # "cancelled"

\* C24: a caller that finds the write client set returns True from the
\* first check, in the same step (it goes on to the tail of
\* _perform_write), and leaves the lock, its queue, the clients and the
\* provisioning untouched.
C24_ReadyReturnsAtOnce ==
  [][\A u \in Units :
       (Enters(u) /\ write_client # NoClient) =>
         /\ initRet'[u] = "true"
         /\ via'[u] = "first_check"
         /\ pc'[u] \in {"append", "done"}
         /\ UNCHANGED plugin_vars]_vars

\* A caller returned True from the first check while an earlier caller
\* is still queued at the lock.
C24_Witness ==
  \E u \in Units :
    /\ via[u] = "first_check"
    /\ pc[u] = "append"
    /\ lock_waiters # << >>

\* C25: a task whose _ensure_init returns False, or returns True while
\* self._arrow_schema is None or empty, ends in that step without having
\* built a batch and without an append_rows call; a task that calls
\* append_rows had True returned and found a schema.
C25_NoSchemaNoWrite ==
  [][\A u \in Units :
       /\ (ReturnsFalse(u) \/ (ReturnsTrue(u) /\ ~SchemaTruthy(arrow_schema')))
            => /\ pc'[u] = "done"
               /\ outcome'[u] = "skipped"
               /\ sent'[u] = NoClient
               /\ batch'[u] = NoBatch
       /\ Appends(u)
            => /\ initRet'[u] = "true"
               /\ SchemaTruthy(arrow_schema')
               /\ batch'[u] = RecordBatch(row[u], arrow_schema')]_vars

\* One task ended after False was returned, another after True was
\* returned with the write client set and no schema; neither wrote.
C25_Witness ==
  /\ write_client # NoClient
  /\ ~SchemaTruthy(arrow_schema)
  /\ \E u, v \in Units :
       /\ initRet[u] = "false" /\ outcome[u] = "skipped"
       /\ initRet[v] = "true" /\ outcome[v] = "skipped"

\* C26: shutdown() suspends in asyncio.wait exactly when the set of
\* background tasks is not empty, and with that set; the wait can end
\* while tasks of the set are pending (its timer does not depend on
\* them); when it ends the number of pending tasks is logged, and no
\* step of shutdown() changes a task: a pending task is not cancelled
\* and goes on.
C26_FlushWaitsOnlyForPending ==
  [][\A s \in Shutdowns :
       /\ (sd[s].pc = "idle" /\ sd'[s].pc # "idle")
            => /\ (sd'[s].pc = "flush") <=> (background_tasks # {})
               /\ sd'[s].pc = "flush" => sd'[s].wait = background_tasks
       /\ sd[s].pc = "flush" => ENABLED ShutdownFlushDone(s)
       /\ (sd[s].pc = "flush" /\ sd'[s].pc # "flush")
            => sd'[s].logged = IF Pending(s) # {}
                                 THEN Cardinality(Pending(s)) ELSE NoLog
       /\ sd'[s] # sd[s] => UNCHANGED unit_vars]_vars

\* Every task made so far was pending when the wait of a shutdown() call
\* ended, and one of them has since written its row.
C26_Witness ==
  \E s \in Shutdowns, u \in Units :
    /\ sd[s].pc \in {"closing", "returned"}
    /\ sd[s].logged >= 1
    /\ sd[s].logged = Cardinality({v \in Units : pc[v] # "unborn"})
    /\ pc[u] = "done" /\ outcome[u] = "written"

\* C27: a shutdown() call that has awaited the close of the transport
\* returns when the await ends, whether the close finished, raised or
\* timed out, and whether or not the close of the BigQuery client raised:
\* it never ends by an exception; the BigQuery client, if set, has had
\* its close called, and both handles are None.  The same holds of the
\* call that finds no write client and closes the BigQuery client alone.
C27_CloseFailuresSwallowed ==
  [][\A s \in Shutdowns :
       /\ sd'[s].pc \in {"idle", "flush", "closing", "returned"}
       /\ (sd[s].pc = "closing" /\ sd'[s].pc # "closing") => Returns(s)
       /\ Returns(s) =>
            /\ write_client' = NoClient
            /\ bq_client' = NoClient
            /\ bq_client # NoClient =>
                 clients'[bq_client].closes = clients[bq_client].closes + 1]_vars

\* A shutdown() call has returned after both the transport close and the
\* BigQuery client's close failed: both handles are None and both closes
\* were called.
C27_Witness ==
  \E s \in Shutdowns :
    /\ sd[s].pc = "returned"
    /\ sd[s].warnings = {"transport", "bq"}
    /\ write_client = NoClient
    /\ bq_client = NoClient
    /\ \A c \in DOMAIN clients : clients[c].closes = 1

\* C28: on an event loop that keeps running, every shutdown() call that
\* has been made returns, whatever the tasks do: a task may never end,
\* and the awaited close is given up when its timer fires.
C28_ShutdownTerminates ==
  \A s \in Shutdowns : (sd[s].pc \in {"flush", "closing"}) ~> (sd[s].pc = "returned")

\* A shutdown() call has returned, after its wait timed out and after an
\* awaited close, while a task is still suspended.
C28_Witness ==
  \E s \in Shutdowns, u \in Units :
    /\ sd[s].pc = "returned"
    /\ sd[s].logged >= 1
    /\ sd[s].closing # NoClient
    /\ pc[u] \in {"created", "lockwait", "creds", "provision", "append"}

\* The task has been made and has not ended.
Incomplete(u) == pc[u] \in {"created", "lockwait", "creds", "provision", "append"}

\* C29, as stated: at every instant the set of background tasks holds
\* exactly the tasks that have been made and have not ended.
C29_SetIsExactlyIncomplete ==
  background_tasks = {u \in Units : Incomplete(u)}

\* The dictionaries _log is given in the runs of SpecRows.
RowInputs == LogInputs \cup { on_event_data(event) : event \in Events }

\* C30: the row of a task that is made is, for one of the dictionaries
\* _log can have been given (the one whose event_type the call saw): the
\* dictionary's value under every key it has, the timestamp included; the
\* capture time under timestamp if it has no such key; and None under
\* each of the other seven fields it lacks.
C30_RowIsMergeOfDefaultsAndData ==
  [][\A u \in Units :
       Spawned(u) =>
         \E data \in RowInputs :
           /\ last_event' = EventTypeOf(data)
           /\ RowFields \subseteq DOMAIN row'[u]
           /\ \A f \in DOMAIN data : row'[u][f] = data[f]
           /\ \A f \in RowFields \ DOMAIN data :
                row'[u][f] = IF f = "timestamp" THEN "now" ELSE NoneV]_vars

\* One task has the timestamp its hook supplied; another, whose
\* dictionary had an event_type only, has the capture time and None in
\* the six other fields.
C30_Witness ==
  \E u, v \in Units :
    /\ pc[u] # "unborn" /\ pc[u] # "gone"
    /\ row[u].timestamp = "utc:1700000000.5"
    /\ row[u].event_type = "USER_INPUT"
    /\ pc[v] # "unborn" /\ pc[v] # "gone"
    /\ row[v].timestamp = "now"
    /\ row[v].event_type = "CUSTOM"
    /\ \A f \in RowFields \ {"timestamp", "event_type"} : row[v][f] = NoneV

\* C31: the batch of an append_rows call has exactly the columns of the
\* arrow schema, in the schema's order; each column holds one value, the
\* row's value under the field's name, or None when the row has no such
\* key; a key of the row that names no field gives no column; and the
\* row is the same after the batch was built.
C31_BatchIsRowInSchemaOrder ==
  [][\A u \in Units :
       Appends(u) =>
         /\ Len(batch'[u]) = Len(arrow_schema'.fields)
         /\ \A i \in 1..Len(arrow_schema'.fields) :
              LET name == arrow_schema'.fields[i].name IN
              /\ batch'[u][i].name = name
              /\ Len(batch'[u][i].values) = 1
              /\ batch'[u][i].values[1] =
                   IF name \in DOMAIN row[u] THEN row[u][name] ELSE NoneV
         /\ row'[u] = row[u]]_vars

\* A task is at append_rows with a row that has a key outside the schema:
\* the batch has the 8 columns, none of them for that key, and the row
\* still has the key.
C31_Witness ==
  \E u \in Units :
    /\ pc[u] = "append"
    /\ "extra" \in DOMAIN row[u]
    /\ Len(batch[u]) = 8
    /\ \A i \in 1..8 : batch[u][i].name # "extra"
    /\ batch[u][3] = [name |-> "agent", values |-> << NoneV >>]

\* The field as _bq_to_arrow_data_type passes it on for the element of a
\* REPEATED field: the same name, type, subfields and range element type,
\* with the default mode.
ElementOf(f) == [f EXCEPT !.mode = "NULLABLE"]

\* C32, as stated: the type of a REPEATED field is the list of the type
\* its element converts to; when the element does not convert the type
\* is None; and the conversion does not raise.
C32_RepeatedIsListOfElement ==
  \A i \in 1..Len(schema) :
    schema[i].mode = "REPEATED" =>
      LET el == bq_to_arrow_data_type(ElementOf(schema[i]))
          r == bq_to_arrow_data_type(schema[i])
      IN /\ r.k # "raised"
         /\ el.k \in {"absent", "raised"} => r.k = "absent"
         /\ el.k \notin {"absent", "raised"} => r = [k |-> "list", inner |-> el]

\* The field is a RANGE field that is not REPEATED.
IsRange(f) ==
  /\ f.mode # "REPEATED"
  /\ f.field_type # NoneV
  /\ Upper(f.field_type) = "RANGE"

\* C33: a RANGE field whose element type is in the scalar table converts
\* to the struct of the two fields start and end, in this order, both of
\* the type the table gives for the element type; a RANGE field without
\* element type makes the conversion raise, and so has no type.
C33_RangeIsStartEndStruct ==
  \A i \in 1..Len(schema) :
    IsRange(schema[i]) =>
      LET e == schema[i].range_element_type
          r == bq_to_arrow_data_type(schema[i])
      IN /\ e = NoneV => r.k = "raised"
         /\ (e # NoneV /\ bq_to_arrow_scalars(Upper(e)).k # "absent") =>
              /\ r.k = "struct"
              /\ Len(r.fields) = 2
              /\ r.fields[1].name = "start" /\ r.fields[2].name = "end"
              /\ r.fields[1].type = bq_to_arrow_scalars(Upper(e))
              /\ r.fields[2].type = bq_to_arrow_scalars(Upper(e))

\* The plugin has initialized with a schema of one RANGE field of DATE:
\* the cached schema has the struct of two date32 fields.
C33_Witness ==
  /\ write_client # NoClient
  /\ Len(schema) = 1 /\ IsRange(schema[1])
  /\ arrow_schema.k = "schema"
  /\ arrow_schema.fields[1].type.k = "struct"
  /\ arrow_schema.fields[1].type.fields[1].type = bq_to_arrow_scalars("DATE")
  /\ arrow_schema.fields[1].type.fields[2].name = "end"

\* The configured formatter raises when it is called with the content.
FormatterRaises(content) ==
  /\ config.content_formatter # NoneV
  /\ CallFormatter(config.content_formatter, content).k = "raised"

\* C34: in a step of on_user_message_callback whose event passes the
\* filter, a message that is not None and on which the configured
\* formatter raises gives a new task whose row has the content
\* "User Content: [FORMATTING FAILED]", and a message that is None
\* gives a new task whose row has the content "User Content: None",
\* whatever the formatter would do if it were called; the hook returns.
C34_FormatterFailureIsMarked ==
  [][ \A m \in UserMessages :
        on_user_message_callback(m) =>
          /\ hookResult' = "returned"
          /\ \E u \in Units :
               /\ Spawned(u)
               /\ u \in background_tasks'
               /\ row'[u].event_type = "USER_MESSAGE_RECEIVED"
               /\ (~m.none /\ FormatterRaises(m)) =>
                    row'[u].content = "User Content: [FORMATTING FAILED]"
               /\ m.none => row'[u].content = "User Content: None" ]_vars

\* Under a formatter that always raises, one row with the marker and one
\* row of a None message have both been written.
C34_Witness ==
  /\ config.content_formatter = "raises"
  /\ \E u, w \in Units :
       /\ pc[u] = "done" /\ outcome[u] = "written"
       /\ row[u].content = "User Content: [FORMATTING FAILED]"
       /\ pc[w] \in {"created", "append", "done"}
       /\ row[w].content = "User Content: None"

\* The rules of the classification in their priority, and the type each
\* gives.
RuleMatches(i, event) ==
  CASE i = 1 -> event.author = "user"
    [] i = 2 -> HasFunctionCalls(event)
    [] i = 3 -> HasFunctionResponses(event)
    [] i = 4 -> HasParts(event)
    [] i = 5 -> event.error_message \notin {NoneV, ""}
    [] i = 6 -> TRUE
RuleTypes ==
  << "USER_INPUT", "TOOL_CALL", "TOOL_RESULT", "MODEL_RESPONSE", "ERROR",
     "SYSTEM" >>
FirstRule(event) ==
  CHOOSE i \in 1..6 :
    RuleMatches(i, event) /\ \A j \in 1..(i - 1) : ~RuleMatches(j, event)

\* C35: the row on_event_callback makes for an event has the type of the
\* first rule the event matches, in the order author "user", function
\* calls, function responses, content parts, error message, none of
\* these; the type is one of the six.
C35_FirstMatchingRule ==
  [][ \A event \in ClassifyEvents :
        on_event_callback(event) =>
          \E u \in Units :
            /\ Spawned(u)
            /\ row'[u].event_type = get_event_type(event)
            /\ row'[u].event_type = RuleTypes[FirstRule(event)] ]_vars

\* A task was made for an event of an agent that has a function response
\* and a function call, in this order, and an error message: it matches
\* four rules and is a TOOL_CALL.
C35_Witness ==
  \E u \in Units :
    /\ pc[u] = "created"
    /\ row[u].agent = "agent"
    /\ row[u].error_message = "quota"
    /\ row[u].content =
         JsonDumps(<< Part(NoneV, NoneV, "search"), Part(NoneV, "search", NoneV) >>)
    /\ row[u].event_type = "TOOL_CALL"

\* C36: a task that starts append_rows starts it on a client whose
\* transport no shutdown() has begun to close.
C36_NoAppendOnClosingClient ==
  [][ \A u \in Units :
        Appends(u) => clients'[sent'[u]].closes = 0 ]_vars

\* C37: every client that was created is the client _write_client or
\* _bq_client refers to, or its close was called.
C37_EveryClientHeldOrClosed ==
  \A c \in DOMAIN clients :
    c \in {write_client, bq_client} \/ clients[c].closes >= 1

\* The task is inside `async with self._init_lock`.
InAttempt(u) == pc[u] \in {"creds", "provision"}

\* C38: the lock is held only by a task that is inside the `async with`;
\* the step in which the holder leaves it, by a return of True or False
\* or by its cancellation, releases the lock; and, on a loop that keeps
\* running and with remote steps that end, every task waiting for the
\* lock leaves _ensure_init (or is cancelled).
C38_GateReleasedAndWaitersReturn ==
  /\ [](lock_holder # 0 => InAttempt(lock_holder))
  /\ [][ \A u \in Units :
           (lock_holder = u /\ pc'[u] \notin {"creds", "provision"})
             => lock_holder' = 0 ]_vars
  /\ \A u \in 1..GateUnits :
       (pc[u] = "lockwait") ~> (pc[u] \in {"append", "done", "gone"})

\* The task holding the lock was cancelled inside the `async with` while
\* another caller was queued behind it: the cancelled task has ended
\* without a result of _ensure_init, the lock is free and the queued
\* caller has not run yet.
C38_Witness ==
  \E v, w \in Units :
    /\ v # w
    /\ pc[v] = "done" /\ outcome[v] = "cancelled"
    /\ failedAttempts = 1 /\ initRet[v] = "none"
    /\ pc[w] = "lockwait" /\ Woken(w)
    /\ init_lock /\ lock_holder = 0

====
